---- MODULE Spec2Model ----
(***************************************************************************)
(* Conversational search session controller of huge-ai-search.             *)
(*                                                                         *)
(* The process instantiates one controller: the synchronous                *)
(* GoogleAISearcher (driven directly, or by the MCP server through its     *)
(* one-worker thread pool) or the cooperative AsyncGoogleAISearcher.       *)
(* Browser handles are modelled by the number of the start that created    *)
(* them (None is 0), strings by sequences of one-character strings, and    *)
(* time.time() by the variable now.                                        *)
(***************************************************************************)
EXTENDS Integers, Sequences, FiniteSets, TLC

VARIABLES
    deployment,     \* "sync_api": GoogleAISearcher called directly,
                    \* "async_api": AsyncGoogleAISearcher called directly,
                    \* "mcp_server": GoogleAISearcher behind server.call_tool
    browser_path,   \* self._browser_path: TRUE when _find_browser found one
    use_user_data,  \* self.use_user_data
    searcher,       \* the controller's mutable fields
    now,            \* time.time()
    launched,       \* number of session starts attempted so far (handle ids)
    last,           \* the last completed call: what it returned and saw
    pc,             \* server.call_tool: position of each concurrent tool call
    queue,          \* _executor: submitted searches not yet picked by a worker
    login_timeout_timestamp, \* server._login_timeout_timestamp (None is 0)
    call,           \* server.call_tool: each call's query and awaited result
    response,       \* server.call_tool: the response returned last, and to whom
    monitor,        \* _wait_for_streaming_complete: its locals and last tick
    host,           \* the machine: the snapshot directory with the processes
                    \* using it, and the proxy environment with what
                    \* _detect_proxy made of it
    calc            \* the last call of a static or stateless helper
                    \* (the diff engine, filter_sources, _is_captcha_page):
                    \* its arguments and what it returned

vars == <<deployment, browser_path, use_user_data, searcher, now, launched, last,
          pc, queue, login_timeout_timestamp, call, response, monitor, host,
          calc>>

serverVars == <<pc, queue, login_timeout_timestamp, call, response>>
configVars == <<deployment, browser_path, use_user_data>>

(***************************************************************************)
(* Bounds of the model and constants of the program.                       *)
(***************************************************************************)
MaxTime == 602
MaxLaunch == 2

SESSION_TIMEOUT == 300

None == 0


(***************************************************************************)
(* Strings.                                                                *)
(***************************************************************************)
EmptyStr == <<>>

Slice(s, from, to) == \* Python s[from:to], 0-based, to exclusive
    LET f == IF from < 0 THEN 0 ELSE IF from > Len(s) THEN Len(s) ELSE from
        t == IF to < 0 THEN 0 ELSE IF to > Len(s) THEN Len(s) ELSE to
    IN IF t <= f THEN <<>> ELSE SubSeq(s, f + 1, t)

StartsWith(s, p) == Len(p) <= Len(s) /\ SubSeq(s, 1, Len(p)) = p

\* Python s.find(p): the lowest 0-based index, -1 when absent
Find(s, p) ==
    LET hits == {i \in 0..(Len(s) - Len(p)) : SubSeq(s, i + 1, i + Len(p)) = p}
    IN IF Len(p) > Len(s) \/ hits = {} THEN -1
       ELSE CHOOSE i \in hits : \A j \in hits : i <= j

Contains(s, p) == Find(s, p) # -1

IsSpace(c) == c \in {" ", "\n"}

RECURSIVE LStrip(_)
LStrip(s) == IF s # <<>> /\ IsSpace(Head(s)) THEN LStrip(Tail(s)) ELSE s

RECURSIVE RStrip(_)
RStrip(s) ==
    IF s # <<>> /\ IsSpace(s[Len(s)]) THEN RStrip(SubSeq(s, 1, Len(s) - 1)) ELSE s

Strip(s) == RStrip(LStrip(s))

(***************************************************************************)
(* The controller object and the record a call threads through its steps.  *)
(***************************************************************************)
NoResult == [success |-> FALSE, query |-> EmptyStr, ai_answer |-> EmptyStr,
             sources |-> <<>>, error |-> <<>>, returned |-> FALSE]

SearchResult(success, query, ai_answer, error) ==
    [success |-> success, query |-> query, ai_answer |-> ai_answer,
     sources |-> <<>>, error |-> error, returned |-> TRUE]

\* The state of a call in progress: the controller fields (s), the clock (t),
\* the events so far (ev), a propagating exception (exc), and what it returns.
\* What the visible window shows at a poll of the intervention handler
Observation(captcha, sorry, marker, len, raises) ==
    [captcha |-> captcha, sorry |-> sorry, marker |-> marker, len |-> len,
     raises |-> raises]

\* The window shows before from the first poll and after from poll at on
PollScript(before, at, after) == [before |-> before, at |-> at, after |-> after]

NoScript ==
    PollScript(Observation(FALSE, FALSE, FALSE, 0, FALSE), 1,
               Observation(FALSE, FALSE, FALSE, 0, FALSE))

Enter ==
    [s |-> searcher, launched |-> launched, t |-> now, ev |-> <<>>,
     exc |-> FALSE, ret |-> FALSE, result |-> NoResult, full |-> EmptyStr,
     refull |-> EmptyStr, polls |-> 0, script |-> NoScript]

Emit(m, e) == [m EXCEPT !.ev = Append(@, e)]
Ret(m, b) == [m EXCEPT !.ret = b]
Return(m, r) == [m EXCEPT !.result = r]
Raise(m) == [m EXCEPT !.exc = TRUE, !.ev = Append(@, "raised")]
Caught_not(m) == m

Caught(m) == [m EXCEPT !.exc = FALSE]
Happened(ev, e) == \E i \in 1..Len(ev) : ev[i] = e

Expired_one_second_late(elapsed) == elapsed > SESSION_TIMEOUT + 1

Expired(elapsed) == elapsed > SESSION_TIMEOUT

(***************************************************************************)
(* GoogleAISearcher: session lifecycle.                                    *)
(***************************************************************************)
\* Whether the controller still holds a session
SessionHeld(s) ==
    \/ s.session_active
    \/ s.playwright # None \/ s.browser # None \/ s.context # None
    \/ s.page # None \/ s.tab # None

SyncCloseHandle_propagates(m, h, fails) ==
    IF m.exc \/ m.s[h] = None THEN m
    ELSE IF h \in fails THEN Raise(m)
    ELSE [m EXCEPT !.s[h] = None, !.ev = Append(@, "released")]

\* if self._x: try: self._x.close() except Exception: log; self._x = None
SyncCloseHandle(m, h, fails) ==
    IF m.exc \/ m.s[h] = None THEN m
    ELSE [m EXCEPT !.s[h] = None,
                   !.ev = Append(@, IF h \in fails THEN "close_error_logged"
                                                   ELSE "released")]

SyncCloseSession(m, fails) ==
    LET m0 == [m EXCEPT !.s.session_active = FALSE,
                        !.s.last_ai_answer = EmptyStr,
                        !.ev = Append(@, "closed")]
        m1 == SyncCloseHandle(m0, "page", fails)
        m2 == SyncCloseHandle(m1, "context", fails)
        m3 == SyncCloseHandle(m2, "browser", fails)
    IN SyncCloseHandle(m3, "playwright", fails)

SyncHasActiveSession_keeps_session(m, fails) ==
    IF ~m.s.session_active \/ m.s.page = None THEN Ret(m, FALSE)
    ELSE IF m.s.last_activity_time > 0
            /\ Expired(m.t - m.s.last_activity_time)
         THEN Ret(Emit(m, "timeout_detected"), FALSE)
         ELSE Ret(m, TRUE)

SyncHasActiveSession(m, fails) ==
    IF ~m.s.session_active \/ m.s.page = None THEN Ret(m, FALSE)
    ELSE IF m.s.last_activity_time > 0
            /\ Expired(m.t - m.s.last_activity_time)
         THEN Ret(SyncCloseSession(Emit(m, "timeout_detected"), fails), FALSE)
         ELSE Ret(m, TRUE)

\* The try block of _ensure_session: each resource is assigned as it is
\* created; the step named by fail raises.
\* A browser for the session is being started; session_held marks a start
\* made while the controller still holds a session or one of its handles
Starting(m) ==
    m.ev \o (IF SessionHeld(m.s) THEN <<"session_held">> ELSE <<>>)
         \o <<"starting">>

SyncStartSession(m, fail) ==
    LET gen == m.launched + 1
        m0 == [m EXCEPT !.launched = gen, !.ev = Starting(m)]
        m1 == [m0 EXCEPT !.s.playwright = gen]
        m2 == [m1 EXCEPT !.s.browser = gen]
        m3 == [m2 EXCEPT !.s.context = gen]
        m4 == [m3 EXCEPT !.s.page = gen]
    IN CASE fail = "playwright" -> Raise(m0)
         [] fail = "launch" -> Raise(m1)
         [] fail = "context" -> Raise(m2)
         [] fail = "page" -> Raise(m3)
         [] OTHER -> [m4 EXCEPT !.s.session_active = TRUE,
                                !.s.last_activity_time = m.t,
                                !.ev = Append(@, "started")]

\* _ensure_session, the end of the try block and the except block
SyncEnsureSessionExcept(body, fails) ==
    IF body.exc
    THEN Ret(SyncCloseSession(Emit(Caught(body), "start_failed"), fails), FALSE)
    ELSE Ret(body, TRUE)

SyncEnsureSession_uncaught(m, fail, fails) ==
    IF m.s.session_active /\ m.s.page # None THEN Ret(m, TRUE)
    ELSE Ret(SyncStartSession(m, fail), TRUE)

SyncEnsureSession(m, fail, fails) ==
    IF m.s.session_active /\ m.s.page # None THEN Ret(m, TRUE)
    ELSE SyncEnsureSessionExcept(SyncStartSession(m, fail), fails)

(***************************************************************************)
(* AsyncGoogleAISearcher: session lifecycle.                               *)
(***************************************************************************)
AsyncHasActiveSession(m) ==
    IF ~m.s.session_active \/ m.s.browser = None THEN Ret(m, FALSE)
    ELSE IF m.s.last_activity_time > 0
            /\ Expired(m.t - m.s.last_activity_time)
         THEN Ret(Emit(m, "timeout_detected"), FALSE)
         ELSE Ret(m, TRUE)

AsyncCloseSession(m, fails) ==
    LET m0 == [m EXCEPT !.s.session_active = FALSE,
                        !.s.last_ai_answer = EmptyStr,
                        !.s.last_activity_time = 0,
                        !.ev = Append(@, "closed")]
        m1 == IF m0.s.browser = None THEN m0
              ELSE [m0 EXCEPT !.s.browser = None,
                              !.ev = Append(@, IF "browser" \in fails
                                               THEN "close_error_logged"
                                               ELSE "released")]
    IN [m1 EXCEPT !.s.tab = None]

AsyncStartBrowser(m, fail) ==
    IF ~browser_path THEN Ret(Emit(m, "start_failed"), FALSE)
    ELSE LET gen == m.launched + 1
             m0 == [m EXCEPT !.launched = gen, !.ev = Starting(m)]
         IN IF fail # "none"
            THEN Ret([m0 EXCEPT !.s.browser = None, !.s.tab = None,
                                !.s.session_active = FALSE,
                                !.ev = Append(@, "start_failed")], FALSE)
            ELSE Ret([m0 EXCEPT !.s.browser = gen, !.s.tab = gen,
                                !.s.session_active = TRUE,
                                !.s.last_activity_time = m.t,
                                !.ev = Append(@, "started")], TRUE)

\* _ensure_session after has_active_session has answered
AsyncEnsureAfterCheck_no_close(chk, fail, fails) ==
    IF chk.ret
    THEN Ret([chk EXCEPT !.s.last_activity_time = chk.t], TRUE)
    ELSE AsyncStartBrowser(chk, fail)

AsyncEnsureAfterCheck(chk, fail, fails) ==
    IF chk.ret
    THEN Ret([chk EXCEPT !.s.last_activity_time = chk.t], TRUE)
    ELSE AsyncStartBrowser(IF chk.s.browser # None
                           THEN AsyncCloseSession(chk, fails) ELSE chk, fail)

AsyncEnsureSession(m, fail, fails) ==
    AsyncEnsureAfterCheck(AsyncHasActiveSession(m), fail, fails)

(***************************************************************************)
(* Incremental diff engine.                                                *)
(***************************************************************************)
Min(a, b) == IF a < b THEN a ELSE b

\* Python s.rfind(p): the highest 0-based index, -1 when absent
RFind(s, p) ==
    LET hits == {i \in 0..(Len(s) - Len(p)) : SubSeq(s, i + 1, i + Len(p)) = p}
    IN IF Len(p) > Len(s) \/ hits = {} THEN -1
       ELSE CHOOSE i \in hits : \A j \in hits : i >= j

\* GoogleAISearcher._remove_user_query_from_content
SyncRemoveUserQuery(content, query) ==
    IF content = EmptyStr \/ query = EmptyStr THEN content
    ELSE IF StartsWith(content, query)
    THEN Strip(Slice(content, Len(query), Len(content)))
    ELSE LET query_normalized == Strip(query)
             content_start == Slice(content, 0, Len(query_normalized) + 50)
             pos == Find(content_start, query_normalized)
         IN IF pos # -1 /\ pos < 20
            THEN Strip(Slice(content, pos + Len(query_normalized), Len(content)))
            ELSE content

\* re.sub(r'[\s\?\!\.\,]+', '', text), over the ASCII part of the class
RECURSIVE normalize(_)
normalize(text) ==
    IF text = <<>> THEN <<>>
    ELSE IF Head(text) \in {" ", "\n", "?", "!", ".", ","} THEN normalize(Tail(text))
    ELSE <<Head(text)>> \o normalize(Tail(text))

\* The inner scan of strategy 3: the end of the echoed query that starts at i
NormalizedMatchEnd(content, i, query_normalized, query_norm) ==
    LET stop == Min(i + Len(query_normalized) + 30, Len(content))
        ends == {j \in i..(stop - 1) :
                    LET part == normalize(Slice(content, i, j + 1))
                    IN /\ part = Slice(query_norm, 0, Len(part))
                       /\ Len(part) >= Len(query_norm)}
    IN IF ends = {} THEN i
       ELSE (CHOOSE j \in ends : \A k \in ends : j <= k) + 1

\* A query removal that removes nothing
AsyncRemoveUserQuery_keeps(content, query) == content

\* AsyncGoogleAISearcher._remove_user_query_from_content
AsyncRemoveUserQuery(content, query) ==
    IF content = EmptyStr \/ query = EmptyStr THEN content
    ELSE IF StartsWith(content, query)
    THEN Strip(Slice(content, Len(query), Len(content)))
    ELSE LET query_normalized == Strip(query)
             search_range == Min(Len(query_normalized) + 50, Len(content))
             content_start == Slice(content, 0, search_range)
             pos == Find(content_start, query_normalized)
             query_norm == normalize(query_normalized)
             starts == {i \in 0..(Min(50, Len(content)) - 1) :
                 /\ StartsWith(normalize(Slice(content, i,
                                   i + Len(query_normalized) + 20)), query_norm)
                 /\ NormalizedMatchEnd(content, i, query_normalized,
                                       query_norm) > i}
         IN IF pos # -1 /\ pos < 20
            THEN Strip(Slice(content, pos + Len(query_normalized), Len(content)))
            ELSE IF Len(query_norm) >= 5 /\ starts # {}
            THEN LET i == CHOOSE a \in starts : \A b \in starts : a <= b
                 IN Strip(Slice(content,
                        NormalizedMatchEnd(content, i, query_normalized,
                                           query_norm), Len(content)))
            ELSE content

\* A step that removes nothing
RemovePreviousContent_keeps(full_content, previous_content) == full_content

\* A step that cuts at the length of the previous answer whether or not it
\* was located
RemovePreviousContent_cuts_unlocated(full_content, previous_content) ==
    Strip(Slice(full_content, Len(previous_content), Len(full_content)))

\* AsyncGoogleAISearcher._remove_previous_content
RemovePreviousContent(full_content, previous_content) ==
    LET prefix_length == Min(200, Len(previous_content))
        previous_prefix == Strip(Slice(previous_content, 0, prefix_length))
        estimated_end == Len(previous_content)
        search_start == IF estimated_end - 50 > 0 THEN estimated_end - 50 ELSE 0
        search_end == Min(Len(full_content), estimated_end + 50)
        search_region == Slice(full_content, search_start, search_end)
        newline_pos == RFind(search_region, <<"\n">>)
        mid_start == (Len(previous_content) \div 2) - 50
        core_content == Slice(previous_content, mid_start, mid_start + 100)
        core_pos == Find(full_content, core_content)
        core_end == Min(core_pos + (Len(previous_content) - mid_start),
                        Len(full_content))
        core_new == Strip(Slice(full_content, core_end, Len(full_content)))
    IN IF previous_content = EmptyStr THEN full_content
       ELSE IF Contains(full_content, previous_content)
       THEN Strip(Slice(full_content,
                        Find(full_content, previous_content)
                            + Len(previous_content), Len(full_content)))
       ELSE IF StartsWith(full_content, previous_prefix)
       THEN IF newline_pos # -1
            THEN Strip(Slice(full_content, search_start + newline_pos + 1,
                             Len(full_content)))
            ELSE Strip(Slice(full_content, estimated_end, Len(full_content)))
       ELSE IF Len(previous_content) > 100 /\ core_pos # -1
               /\ core_new # EmptyStr
       THEN core_new
       ELSE full_content

\* AsyncGoogleAISearcher._extract_incremental_content
ExtractIncrementalContent(full_content, previous_content, user_query) ==
    IF full_content = EmptyStr THEN EmptyStr
    ELSE IF previous_content = EmptyStr THEN full_content
    ELSE LET new_content == RemovePreviousContent(full_content, previous_content)
         IN IF new_content # EmptyStr /\ user_query # EmptyStr
            THEN AsyncRemoveUserQuery(new_content, user_query)
            ELSE new_content

\* GoogleAISearcher.continue_conversation, the incremental extraction inlined
\* there: the answer returned for a follow-up whose page holds full_page_answer
SyncIncrementalAnswer(full_page_answer, last_ai_answer, query) ==
    IF last_ai_answer # EmptyStr /\ Contains(full_page_answer, last_ai_answer)
    THEN LET last_end_pos == Find(full_page_answer, last_ai_answer)
                                 + Len(last_ai_answer)
             new_content == Strip(Slice(full_page_answer, last_end_pos,
                                        Len(full_page_answer)))
         IN IF new_content # EmptyStr
            THEN SyncRemoveUserQuery(new_content, query)
            ELSE full_page_answer
    ELSE full_page_answer

(***************************************************************************)
(* Error texts, as sequences of phrases.  A phrase that one of the         *)
(* server's timeout keywords occurs in is written as that keyword.         *)
(***************************************************************************)
ErrNoBrowser == <<"no usable browser found">>
ErrStart == <<"cannot start browser session">>
ErrInterventionTimeout == <<"user operation timed out", "5fenzhong", "retry">>
ErrIntervention(e) == <<"user operation failed">> \o e
ErrNeedVerify == <<"verification needed", "search again">>
ErrFollowUp(e) == <<"follow-up failed">> \o e

\* str(e) of the exceptions the browser driver raises
ExcMessages == {<<"target closed">>, <<"timeout", "30000ms exceeded">>}

(***************************************************************************)
(* What the environment does during one call: which start step fails,      *)
(* which close() raises, whether navigation raises, what the page shows,   *)
(* what extraction returns, how a manual verification ends, and how the    *)
(* follow-up input behaves.                                                *)
(***************************************************************************)
Queries == {<<"q">>}

Extractions ==
    {[success |-> FALSE, ai_answer |-> EmptyStr]}
        \cup {[success |-> TRUE, ai_answer |-> a] : a \in {<<"a">>, <<"a", "q", "b">>}}

StartFailures == {"playwright", "launch", "context", "page"}
CloseFailChoices == {{}, {"page", "browser"}}

max_wait == 300
check_interval == 2
ContentThreshold == 1000

USER_INTERVENTION_TIMEOUT == 300

MaxChecks_one_more == USER_INTERVENTION_TIMEOUT \div check_interval + 1

MaxChecks == USER_INTERVENTION_TIMEOUT \div check_interval

\* Pages the visible window can show: a verification page, an answer under
\* a "sorry" URL, a page of exactly the threshold's length, one just over
\* it, a short page with an AI-mode marker, a page that cannot be read
VisiblePage ==
    [captcha |-> Observation(TRUE, FALSE, FALSE, ContentThreshold + 1, FALSE),
     sorry |-> Observation(FALSE, TRUE, TRUE, ContentThreshold + 1, FALSE),
     short |-> Observation(FALSE, FALSE, FALSE, ContentThreshold, FALSE),
     long |-> Observation(FALSE, FALSE, FALSE, ContentThreshold + 1, FALSE),
     marker |-> Observation(FALSE, FALSE, TRUE, 0, FALSE),
     broken |-> Observation(FALSE, FALSE, FALSE, 0, TRUE)]

NeverReady == PollScript(VisiblePage.captcha, 1, VisiblePage.captcha)

DefaultEnv ==
    [start_fail |-> "none", close_fails |-> {}, nav |-> "ok", page |-> "ok",
     ext |-> [success |-> TRUE, ai_answer |-> <<"a">>], iv |-> "run",
     streaming |-> TRUE,
     script |-> PollScript(VisiblePage.captcha, 2, VisiblePage.long),
     emsg |-> <<"target closed">>,
     f_input |-> "element", f_submit |-> "ok", f_page |-> "ok",
     f_ext |-> [success |-> TRUE, ai_answer |-> <<"a", "q", "b">>],
     f_ext2 |-> [success |-> TRUE, ai_answer |-> <<"a", "q", "b">>]]

\* How a manual verification can end, with what it then extracts
\* How a manual verification can go, with what it then extracts
InterventionEnvs ==
    {[DefaultEnv EXCEPT !.ext = x] : x \in Extractions}
        \cup {[DefaultEnv EXCEPT !.script = s] :
                 s \in {PollScript(VisiblePage.captcha, 1, VisiblePage.marker),
                        PollScript(VisiblePage.captcha, MaxChecks,
                                   VisiblePage.long),
                        PollScript(VisiblePage.captcha, MaxChecks + 1,
                                   VisiblePage.long),
                        PollScript(VisiblePage.short, 2, VisiblePage.sorry),
                        PollScript(VisiblePage.captcha, 2, VisiblePage.broken)}}
        \cup {[DefaultEnv EXCEPT !.iv = i, !.emsg = e] :
                 i \in {"launch_error", "driver_raise"}, e \in ExcMessages}

SearchEnvs ==
    {[DefaultEnv EXCEPT !.start_fail = f, !.close_fails = cf] :
        f \in StartFailures, cf \in CloseFailChoices}
    \cup {[v EXCEPT !.nav = "raise"] : v \in InterventionEnvs}
    \cup {[v EXCEPT !.page = "captcha", !.close_fails = {"page", "browser"}] :
            v \in InterventionEnvs}
    \cup {[DefaultEnv EXCEPT !.page = "raise", !.emsg = e] : e \in ExcMessages}
    \cup {[DefaultEnv EXCEPT !.ext = x] : x \in Extractions}

\* _extract_ai_answer: the answer with the source links of the page, or
\* the failure its except block builds
ExtractResult(ext, emsg, query) ==
    IF ext.success
    THEN [SearchResult(TRUE, query, ext.ai_answer, EmptyStr)
             EXCEPT !.sources = <<"source link">>]
    ELSE SearchResult(FALSE, query, EmptyStr, <<"extracting content failed">> \o emsg)

Fail_without_message(m, query, error) ==
    Return(m, SearchResult(FALSE, query, EmptyStr, EmptyStr))

Fail(m, query, error) == Return(m, SearchResult(FALSE, query, EmptyStr, error))

(***************************************************************************)
(* GoogleAISearcher: search and continue_conversation.                     *)
(***************************************************************************)
\* _handle_user_intervention: a visible browser, polled until the page has
\* left the problem state or the wait is exhausted; closed in the finally
ObsAt(script, i) == IF i < script.at THEN script.before ELSE script.after

\* The polls at which the window shows something it did not show at the
\* poll before: a loop that was not left at one of these is not left at the
\* polls that follow it either, which see the same page
PollChanges(script) == {1, script.at}

PollReady_ignores_url(o) == ~o.captcha /\ (o.marker \/ o.len > ContentThreshold)

\* not is_problem_page and has_search_result
PollReady(o) ==
    /\ ~(o.captcha \/ o.sorry)
    /\ (o.marker \/ o.len > ContentThreshold)

PollEnd(outcome, polls) == [outcome |-> outcome, polls |-> polls]

\* The first loop iteration of S, the one at which the loop is left
FirstOf(S) == CHOOSE i \in S : \A j \in S : i <= j

\* How many times "while waited < max_wait: ... waited += check_interval"
\* goes round when nothing ends it early
SyncMaxPolls == (max_wait + check_interval - 1) \div check_interval

\* The iterations at which the sync loop would leave: the page cannot be
\* read (the exception leaves the loop) or the page is ready
SyncPollStops(script) ==
    {i \in PollChanges(script) \cap (1 .. SyncMaxPolls) :
        ObsAt(script, i).raises \/ PollReady(ObsAt(script, i))}

\* How the sync loop ends, given the iterations at which it would leave
SyncPollLeave(script, stops) ==
    IF stops = {} THEN PollEnd("timeout", SyncMaxPolls)
    ELSE IF ObsAt(script, FirstOf(stops)).raises
    THEN PollEnd("error", FirstOf(stops))
    ELSE PollEnd("extract", FirstOf(stops))


\* A handler that returns with its window left open
InterventionResult_leaves_window(opened, end, env, query) ==
    CASE end.outcome = "extract" ->
           Return([opened EXCEPT !.full = env.ext.ai_answer,
                                 !.polls = end.polls,
                                 !.ev = Append(@, "intervention_extracted")],
                  ExtractResult(env.ext, env.emsg, query))
      [] end.outcome = "timeout" ->
           Fail([opened EXCEPT !.polls = end.polls,
                               !.ev = Append(@, "intervention_timeout")],
                query, ErrInterventionTimeout)
      [] OTHER ->
           Fail([opened EXCEPT !.polls = end.polls],
                query, ErrIntervention(env.emsg))

\* What the handler returns once its polling has ended
InterventionResult(opened, end, env, query) ==
    CASE end.outcome = "extract" ->
           Return([opened EXCEPT !.full = env.ext.ai_answer,
                                 !.polls = end.polls,
                                 !.ev = @ \o <<"intervention_extracted",
                                                "visible_closed">>],
                  ExtractResult(env.ext, env.emsg, query))
      [] end.outcome = "timeout" ->
           Fail([opened EXCEPT !.polls = end.polls,
                               !.ev = @ \o <<"intervention_timeout",
                                              "visible_closed">>],
                query, ErrInterventionTimeout)
      [] OTHER ->
           Fail([opened EXCEPT !.polls = end.polls,
                               !.ev = Append(@, "visible_closed")],
                query, ErrIntervention(env.emsg))

\* The visible window opens
OpenVisible(m, script) ==
    [m EXCEPT !.script = script,
              !.ev = @ \o (IF SessionHeld(m.s) THEN <<"session_held">> ELSE <<>>)
                       \o <<"visible_opened">>]

SyncHandleUserIntervention(m, env, query) ==
    IF env.iv = "launch_error"
    THEN Fail(Emit(m, "intervention"), query, ErrIntervention(env.emsg))
    ELSE InterventionResult(OpenVisible(Emit(m, "intervention"), env.script),
                            SyncPollLeave(env.script, SyncPollStops(env.script)),
                            env, query)

\* The page is there and _wait_for_streaming_complete has returned; a
\* False from it is logged at most, the turn goes on to read the page
WaitForStreaming(m, env, event) ==
    IF env.streaming THEN Emit(m, event)
    ELSE [m EXCEPT !.ev = @ \o <<event, "streaming_timeout">>]

\* The first search of a conversation stores what it extracted
SearchBaseline(result) == result.ai_answer

\* _search_with_persistent_session, the try block
SyncPersistentBody(m, env, query) ==
    IF env.nav = "raise"
    THEN LET c == SyncCloseSession(Emit(m, "nav_failed"), env.close_fails)
         IN IF env.iv = "driver_raise" THEN Raise(Emit(c, "driver_failed"))
            ELSE SyncHandleUserIntervention(c, env, query)
    ELSE LET n == WaitForStreaming(m, env, "navigated")
         IN CASE env.page = "raise" -> Raise(n)
              [] env.page = "captcha" ->
                   LET c == SyncCloseSession(Emit(n, "captcha"), env.close_fails)
                   IN IF env.iv = "driver_raise"
                      THEN Raise(Emit(c, "driver_failed"))
                      ELSE SyncHandleUserIntervention(c, env, query)
              [] OTHER ->
                   LET r == ExtractResult(env.ext, env.emsg, query)
                   IN Return([n EXCEPT !.s.last_ai_answer = SearchBaseline(r),
                                       !.s.last_activity_time = n.t,
                                       !.full = r.ai_answer,
                                       !.ev = Append(@, "extracted")], r)

SyncPersistentExcept_closes_on_failure(body, env, query) ==
    IF body.exc \/ ~body.result.success
    THEN Fail(SyncCloseSession(Caught(body), env.close_fails), query, env.emsg)
    ELSE body

SyncPersistentExcept(body, env, query) ==
    IF body.exc
    THEN Fail(SyncCloseSession(Caught(body), env.close_fails), query, env.emsg)
    ELSE body

SyncPersistentAfterEnsure(e, env, query) ==
    IF ~e.ret THEN Fail(e, query, ErrStart)
    ELSE SyncPersistentExcept(SyncPersistentBody(e, env, query), env, query)

SyncSearchPersistent(m, env, query) ==
    SyncPersistentAfterEnsure(
        SyncEnsureSession(m, env.start_fail, env.close_fails), env, query)

\* _search_with_new_session: a browser of its own, closed before it returns
SyncNewSessionBody(m, env, query) ==
    LET b == Emit(m, "temp_opened")
    IN CASE env.start_fail # "none" -> Raise(m)
         [] env.nav = "raise" ->
              SyncHandleUserIntervention(
                  [b EXCEPT !.ev = @ \o <<"nav_failed", "temp_closed">>], env, query)
         [] env.page = "raise" -> Raise(Emit(b, "temp_closed"))
         [] env.page = "captcha" ->
              SyncHandleUserIntervention(
                  [b EXCEPT !.ev = @ \o <<"captcha", "temp_closed">>], env, query)
         [] OTHER -> Return([b EXCEPT !.full = env.ext.ai_answer,
                                      !.ev = @ \o <<"temp_extracted", "temp_closed">>],
                            ExtractResult(env.ext, env.emsg, query))

SyncNewSessionExcept(body, env, query) ==
    IF body.exc THEN Fail(Caught(body), query, env.emsg) ELSE body

SyncSearchNewSession(m, env, query) ==
    SyncNewSessionExcept(SyncNewSessionBody(m, env, query), env, query)

SyncSearchExcept(body, env, query) ==
    IF body.exc THEN Fail(Caught(body), query, env.emsg) ELSE body

\* search once it has refreshed _last_activity_time
SyncSearchRefreshed(m0, env, query) ==
    IF ~browser_path THEN Fail(m0, query, ErrNoBrowser)
    ELSE SyncSearchExcept(IF use_user_data
                          THEN SyncSearchPersistent(m0, env, query)
                          ELSE SyncSearchNewSession(m0, env, query), env, query)

SyncSearch(m, env, query) ==
    SyncSearchRefreshed([m EXCEPT !.s.last_activity_time = m.t], env, query)

\* _navigate_to_new_search, the try block
SyncNewSearchBody(m, env, query) ==
    IF env.nav = "raise" THEN Raise(Emit(m, "nav_failed"))
    ELSE LET n == WaitForStreaming(m, env, "navigated")
         IN CASE env.page = "raise" -> Raise(n)
              [] env.page = "captcha" ->
                   Fail(SyncCloseSession(Emit(n, "captcha"), env.close_fails),
                        query, ErrNeedVerify)
              [] OTHER ->
                   LET r == ExtractResult(env.ext, env.emsg, query)
                   IN Return([n EXCEPT !.s.last_ai_answer = SearchBaseline(r),
                                       !.s.last_activity_time = n.t,
                                       !.full = r.ai_answer,
                                       !.ev = Append(@, "extracted")], r)

SyncNewSearchExcept(body, env, query) ==
    IF body.exc
    THEN Fail(SyncCloseSession(Caught(body), env.close_fails), query,
              <<"search failed">> \o env.emsg)
    ELSE body

SyncNavigateToNewSearch(m, env, query) ==
    IF ~m.s.session_active \/ m.s.page = None THEN SyncSearch(m, env, query)
    ELSE SyncNewSearchExcept(SyncNewSearchBody(m, env, query), env, query)

\* What the new search that replaces a failed follow-up can meet
FallbackEnvs ==
    {[DefaultEnv EXCEPT !.start_fail = "launch"],
     [DefaultEnv EXCEPT !.nav = "raise", !.script = NeverReady],
     [DefaultEnv EXCEPT !.page = "raise"]}
    \cup {[DefaultEnv EXCEPT !.ext = x] : x \in Extractions}

FollowUpEnvs ==
    {[v EXCEPT !.f_input = "none"] : v \in FallbackEnvs}
    \cup {[v EXCEPT !.f_input = i, !.f_submit = "fail"] :
            i \in {"element", "js"}, v \in FallbackEnvs}
    \cup {[v EXCEPT !.f_page = "raise"] : v \in FallbackEnvs}
    \cup {[DefaultEnv EXCEPT !.f_page = "captcha", !.close_fails = cf] :
            cf \in CloseFailChoices}
    \cup {[DefaultEnv EXCEPT !.f_input = i, !.f_ext = x, !.f_ext2 = y] :
            i \in {"element", "js"}, x \in Extractions, y \in Extractions}

SyncFollowUpBaseline_diffed(full_page_answer, returned_answer) == returned_answer

\* What continue_conversation keeps as the baseline of the next diff: the
\* full page answer, not the incremental answer it returns
SyncFollowUpBaseline(full_page_answer, returned_answer) == full_page_answer

\* continue_conversation, the try block
SyncFollowUpBody(m, env, query) ==
    LET submitted == WaitForStreaming(m, env, "followup_submitted")
        r == ExtractResult(env.f_ext, env.emsg, query)
        full_page_answer == r.ai_answer
        answer == IF r.success /\ m.s.last_ai_answer # EmptyStr
                  THEN SyncIncrementalAnswer(full_page_answer,
                                             m.s.last_ai_answer, query)
                  ELSE full_page_answer
    IN CASE env.f_input = "none" ->
              SyncNavigateToNewSearch(Emit(m, "fallback_search"), env, query)
         [] env.f_input = "js" /\ env.f_submit = "fail" ->
              SyncNavigateToNewSearch(Emit(m, "fallback_search"), env, query)
         [] env.f_input = "element" /\ env.f_submit = "fail" -> Raise(m)
         [] env.f_page = "raise" -> Raise(submitted)
         [] env.f_page = "captcha" ->
              Fail(SyncCloseSession(Emit(submitted, "captcha"), env.close_fails),
                   query, ErrNeedVerify)
         [] OTHER ->
              Return([submitted EXCEPT
                         !.s.last_ai_answer =
                             SyncFollowUpBaseline(full_page_answer, answer),
                         !.s.last_activity_time = m.t,
                         !.full = full_page_answer,
                         !.ev = Append(@, "followup_extracted")],
                     [r EXCEPT !.ai_answer = answer])

\* continue_conversation, the inner except block
SyncFollowUpFallbackExcept(fallback, env, query) ==
    IF fallback.exc
    THEN Fail(SyncCloseSession(Caught(fallback), env.close_fails), query,
              ErrFollowUp(env.emsg))
    ELSE fallback

\* continue_conversation, the outer except block
SyncFollowUpExcept(body, env, query) ==
    IF ~body.exc THEN body
    ELSE SyncFollowUpFallbackExcept(
             SyncNavigateToNewSearch(Emit(Caught(body), "fallback_search"),
                                     env, query), env, query)

\* continue_conversation after has_active_session has answered
SyncFollowUpAfterCheck(chk, env, query) ==
    IF ~chk.ret THEN SyncSearch(Emit(chk, "fallback_search"), env, query)
    ELSE SyncFollowUpExcept(SyncFollowUpBody(chk, env, query), env, query)

SyncContinueConversation(m, env, query) ==
    SyncFollowUpAfterCheck(
        SyncHasActiveSession([m EXCEPT !.s.last_activity_time = m.t],
                             env.close_fails), env, query)

(***************************************************************************)
(* AsyncGoogleAISearcher: search and continue_conversation.                *)
(***************************************************************************)
\* The iterations at which the async loop would leave: a page that cannot
\* be read is skipped
AsyncPollStops(script) ==
    {i \in PollChanges(script) \cap (1 .. MaxChecks) :
        ~ObsAt(script, i).raises /\ PollReady(ObsAt(script, i))}

\* for i in range(max_checks): sleep, look at the page
AsyncPollLoop(script) ==
    IF AsyncPollStops(script) = {} THEN PollEnd("timeout", MaxChecks)
    ELSE PollEnd("extract", FirstOf(AsyncPollStops(script)))

AsyncInterventionTeardown_skipped(m, fails) == m

\* if self._browser is not None: await self.close_session()
AsyncInterventionTeardown(m, fails) ==
    IF m.s.browser # None THEN AsyncCloseSession(m, fails) ELSE m

AsyncHandleUserIntervention(m, env, query) ==
    IF env.iv = "launch_error"
    THEN Fail(AsyncInterventionTeardown(Emit(m, "intervention"), env.close_fails),
              query, ErrIntervention(env.emsg))
    ELSE InterventionResult(
             OpenVisible(AsyncInterventionTeardown(Emit(m, "intervention"),
                                                   env.close_fails), env.script),
             AsyncPollLoop(env.script), env, query)

\* search, the try block
AsyncSearchAfterEnsure(e, env, query) ==
    LET n == WaitForStreaming([e EXCEPT !.s.last_activity_time = e.t], env,
                              "navigated")
        r == ExtractResult(env.ext, env.emsg, query)
    IN CASE ~e.ret -> Fail(e, query, ErrStart)
         [] env.nav = "raise" ->
              AsyncHandleUserIntervention(Emit(e, "nav_failed"), env, query)
         [] env.page = "raise" -> Raise(n)
         [] env.page = "captcha" ->
              AsyncHandleUserIntervention(Emit(n, "captcha"), env, query)
         [] OTHER ->
              Return([n EXCEPT !.s.last_ai_answer = SearchBaseline(r),
                               !.s.last_activity_time = n.t,
                               !.full = r.ai_answer,
                               !.ev = Append(@, "extracted")], r)

AsyncSearchBody(m, env, query) ==
    AsyncSearchAfterEnsure(
        AsyncEnsureSession(m, env.start_fail, env.close_fails), env, query)

AsyncSearchExcept_keeps_session(body, env, query) ==
    IF body.exc THEN Fail(Caught(body), query, env.emsg) ELSE body

\* search, the except block: close_session, then the failure
AsyncSearchExcept(body, env, query) ==
    IF body.exc
    THEN Fail(AsyncCloseSession(Caught(body), env.close_fails), query, env.emsg)
    ELSE body

AsyncSearch(m, env, query) ==
    IF ~browser_path THEN Fail(m, query, ErrNoBrowser)
    ELSE AsyncSearchExcept(AsyncSearchBody(m, env, query), env, query)

\* What continue_conversation keeps as the baseline of the next diff: the
\* answer of a second, full extraction, not the incremental answer it returns
AsyncFollowUpBaseline(full_answer, returned_answer) == full_answer

\* continue_conversation, the try block
AsyncFollowUpBody(m, env, query) ==
    LET previous_ai_answer == m.s.last_ai_answer
        submitted == WaitForStreaming(m, env, "followup_submitted")
        r == ExtractResult(env.f_ext, env.emsg, query)
        incremental_content ==
            ExtractIncrementalContent(r.ai_answer, previous_ai_answer, query)
        answer == IF r.success /\ r.ai_answer # EmptyStr
                     /\ previous_ai_answer # EmptyStr
                     /\ incremental_content # EmptyStr
                  THEN incremental_content ELSE r.ai_answer
        full_result == ExtractResult(env.f_ext2, env.emsg, query)
        stored == IF r.success
                  THEN [submitted EXCEPT
                           !.s.last_ai_answer =
                               AsyncFollowUpBaseline(full_result.ai_answer, answer),
                           !.refull = full_result.ai_answer,
                           !.ev = Append(@, "followup_reextracted")]
                  ELSE submitted
    IN CASE env.f_input = "none" ->
              AsyncSearch(Emit(m, "fallback_search"), env, query)
         [] env.f_submit = "fail" ->
              AsyncSearch(Emit(m, "fallback_search"), env, query)
         [] env.f_page = "raise" -> Raise(submitted)
         [] OTHER ->
              Return([stored EXCEPT !.s.last_activity_time = m.t,
                                    !.full = r.ai_answer,
                                    !.ev = Append(@, "followup_extracted")],
                     [r EXCEPT !.ai_answer = answer])

\* continue_conversation, the inner except block
AsyncFollowUpFallbackExcept(fallback, env, query) ==
    IF fallback.exc THEN Fail(Caught(fallback), query, ErrFollowUp(env.emsg))
    ELSE fallback

\* continue_conversation, the outer except block
AsyncFollowUpExcept(body, env, query) ==
    IF ~body.exc THEN body
    ELSE AsyncFollowUpFallbackExcept(
             AsyncSearch(Emit(Caught(body), "fallback_search"), env, query),
             env, query)

\* continue_conversation after has_active_session has answered
AsyncFollowUpAfterCheck(chk, env, query) ==
    IF ~chk.ret THEN AsyncSearch(Emit(chk, "fallback_search"), env, query)
    ELSE AsyncFollowUpExcept(AsyncFollowUpBody(chk, env, query), env, query)

AsyncContinueConversation(m, env, query) ==
    AsyncFollowUpAfterCheck(AsyncHasActiveSession(m), env, query)

(***************************************************************************)
(* Calls of the controller's methods.  A caller makes one call at a time   *)
(* and the call runs to completion.                                        *)
(***************************************************************************)
\* The session a call finds
SessionExists ==
    /\ searcher.session_active
    /\ IF deployment = "async_api" THEN searcher.browser # None
       ELSE searcher.page # None

\* What a finished call leaves; idle is how long the session it found had
\* been idle (-1: it found none)
Commit(op, m, query) ==
    /\ searcher' = m.s
    /\ launched' = m.launched
    /\ last' = [op |-> op, ret |-> m.ret, result |-> m.result, raised |-> m.exc,
                idle |-> IF SessionExists
                         THEN now - searcher.last_activity_time ELSE -1,
                at |-> now, ev |-> m.ev, full |-> m.full,
                refull |-> m.refull, polls |-> m.polls, script |-> m.script,
                query |-> query]

MayStart == launched < MaxLaunch

SyncHasActiveSessionCall ==
    /\ deployment = "sync_api"
    /\ \E cf \in CloseFailChoices :
          Commit("has_active_session", SyncHasActiveSession(Enter, cf), EmptyStr)
    /\ UNCHANGED <<configVars, host, calc, monitor, now, serverVars>>

SyncCloseSessionCall ==
    /\ deployment = "sync_api"
    /\ \E fails \in SUBSET {"page", "context", "browser", "playwright"} :
          Commit("close_session", SyncCloseSession(Enter, fails), EmptyStr)
    /\ UNCHANGED <<configVars, host, calc, monitor, now, serverVars>>

\* _ensure_session is what _search_with_persistent_session starts with
SyncEnsureSessionCall ==
    /\ deployment = "sync_api"
    /\ use_user_data
    /\ MayStart
    /\ \E fail \in StartFailures \cup {"none"}, cf \in CloseFailChoices :
          Commit("ensure_session", SyncEnsureSession(Enter, fail, cf), EmptyStr)
    /\ UNCHANGED <<configVars, host, calc, monitor, now, serverVars>>

SyncSearchCall ==
    /\ deployment = "sync_api"
    /\ MayStart
    /\ \E env \in SearchEnvs, query \in Queries :
          Commit("search", SyncSearch(Enter, env, query), query)
    /\ UNCHANGED <<configVars, host, calc, monitor, now, serverVars>>

SyncContinueConversationCall ==
    /\ deployment = "sync_api"
    /\ MayStart
    /\ \E env \in FollowUpEnvs, query \in Queries :
          Commit("continue_conversation",
                 SyncContinueConversation(Enter, env, query), query)
    /\ UNCHANGED <<configVars, host, calc, monitor, now, serverVars>>

AsyncHasActiveSessionCall ==
    /\ deployment = "async_api"
    /\ Commit("has_active_session", AsyncHasActiveSession(Enter), EmptyStr)
    /\ UNCHANGED <<configVars, host, calc, monitor, now, serverVars>>

AsyncCloseSessionCall ==
    /\ deployment = "async_api"
    /\ \E fails \in SUBSET {"browser"} :
          Commit("close_session", AsyncCloseSession(Enter, fails), EmptyStr)
    /\ UNCHANGED <<configVars, host, calc, monitor, now, serverVars>>

AsyncEnsureSessionCall ==
    /\ deployment = "async_api"
    /\ MayStart
    /\ \E fail \in {"none", "launch"}, cf \in CloseFailChoices :
          Commit("ensure_session", AsyncEnsureSession(Enter, fail, cf), EmptyStr)
    /\ UNCHANGED <<configVars, host, calc, monitor, now, serverVars>>

AsyncSearchCall ==
    /\ deployment = "async_api"
    /\ MayStart
    /\ \E env \in SearchEnvs, query \in Queries :
          Commit("search", AsyncSearch(Enter, env, query), query)
    /\ UNCHANGED <<configVars, host, calc, monitor, now, serverVars>>

AsyncContinueConversationCall ==
    /\ deployment = "async_api"
    /\ MayStart
    /\ \E env \in FollowUpEnvs, query \in Queries :
          Commit("continue_conversation",
                 AsyncContinueConversation(Enter, env, query), query)
    /\ UNCHANGED <<configVars, host, calc, monitor, now, serverVars>>

\* Time passes between calls
Tick ==
    /\ \E d \in {SESSION_TIMEOUT, SESSION_TIMEOUT + 1} :
          now + d <= MaxTime /\ now' = now + d
    /\ UNCHANGED <<configVars, host, calc, monitor, searcher, launched, last, serverVars>>

(***************************************************************************)
(* server.py: concurrent tool calls on the event loop, and the one-worker  *)
(* thread pool that runs searcher.search for them.                         *)
(***************************************************************************)
NumCalls == 2
Calls == 1..NumCalls

MaxWorkers == 1
LOGIN_COOLDOWN_SECONDS == 300

timeout_keywords_without_minutes ==
    {"yanzheng chaoshi", "denglu chaoshi", "timeout", "captcha", "yanzhengma"}

timeout_keywords ==
    {"yanzheng chaoshi", "denglu chaoshi", "timeout", "5fenzhong", "captcha",
     "yanzhengma"}

\* _is_login_timeout_error: some keyword occurs in the error text
IsLoginTimeoutError(error) ==
    \E i \in 1..Len(error) : error[i] \in timeout_keywords

Running == {c \in Calls : pc[c] = "running"}

ExecutorCanStart_two_workers == Cardinality(Running) < MaxWorkers + 1

\* ThreadPoolExecutor: a queued search starts when a worker is free
ExecutorCanStart == Cardinality(Running) < MaxWorkers

\* A call not yet made; elapsed is the age of the recorded timestamp its
\* cooldown check saw, -1 when there was none or no check
InitCall ==
    [query |-> EmptyStr, result |-> NoResult, raised |-> FALSE, elapsed |-> -1]

InCooldown_inverted(timestamp, t) ==
    timestamp # None /\ t - timestamp > LOGIN_COOLDOWN_SECONDS

InCooldown_forever(timestamp, t) == timestamp # None

\* _login_timeout_timestamp is not None and
\* time.time() - _login_timeout_timestamp < _LOGIN_COOLDOWN_SECONDS
InCooldown(timestamp, t) ==
    timestamp # None /\ t - timestamp < LOGIN_COOLDOWN_SECONDS

Respond(c, kind) ==
    /\ response' = [call |-> c, kind |-> kind]
    /\ call' = [call EXCEPT ![c] = InitCall]

\* What the searches run for tool calls can meet
ToolEnvs ==
    {DefaultEnv,
     [DefaultEnv EXCEPT !.start_fail = "launch"],
     [DefaultEnv EXCEPT !.page = "captcha", !.script = NeverReady],
     [DefaultEnv EXCEPT !.page = "raise", !.emsg = <<"timeout", "30000ms exceeded">>],
     [DefaultEnv EXCEPT !.ext = [success |-> FALSE, ai_answer |-> EmptyStr]]}

\* call_tool up to the await: argument checks, the cooldown check, and the
\* submission of searcher.search to the executor
CallTool(c) ==
    /\ deployment = "mcp_server"
    /\ pc[c] = "idle"
    /\ launched + Cardinality({x \in Calls : pc[x] \in {"queued", "running"}}) < MaxLaunch
    /\ \E name \in {"google_ai_search", "other"}, query \in Queries \cup {EmptyStr} :
             CASE name # "google_ai_search" ->
                    /\ Respond(c, "raised_unknown_tool")
                    /\ UNCHANGED <<pc, queue, login_timeout_timestamp>>
               [] query = EmptyStr ->
                    /\ Respond(c, "error_empty_query")
                    /\ UNCHANGED <<pc, queue, login_timeout_timestamp>>
               [] InCooldown(login_timeout_timestamp, now) ->
                    /\ Respond(c, "cooldown_advisory")
                    /\ UNCHANGED <<pc, queue, login_timeout_timestamp>>
               [] OTHER ->
                    /\ login_timeout_timestamp' = None
                    /\ pc' = [pc EXCEPT ![c] = "queued"]
                    /\ queue' = Append(queue, c)
                    /\ call' = [call EXCEPT
                                  ![c].query = query,
                                  ![c].elapsed =
                                      IF login_timeout_timestamp = None THEN -1
                                      ELSE now - login_timeout_timestamp]
                    /\ UNCHANGED response
    /\ UNCHANGED <<configVars, host, calc, monitor, searcher, now, launched, last>>

\* The worker thread takes the oldest submitted search
ExecutorStart(c) ==
    /\ deployment = "mcp_server"
    /\ queue # <<>>
    /\ Head(queue) = c
    /\ ExecutorCanStart
    /\ pc' = [pc EXCEPT ![c] = "running"]
    /\ queue' = Tail(queue)
    /\ UNCHANGED <<configVars, host, calc, monitor, searcher, now, launched, last,
                   login_timeout_timestamp, call, response>>

\* The worker thread runs searcher.search(query, language) to its end
\* What a finished search leaves: the controller's fields and the result
\* the call awaits
ExecutorFinish(c, m, query) ==
    /\ Commit("search", m, query)
    /\ call' = [call EXCEPT ![c].result = m.result, ![c].raised = m.exc]

ExecutorRun(c) ==
    /\ deployment = "mcp_server"
    /\ pc[c] = "running"
    /\ \E env \in ToolEnvs :
          ExecutorFinish(c, SyncSearch(Enter, env, call[c].query), call[c].query)
    /\ pc' = [pc EXCEPT ![c] = "finished"]
    /\ UNCHANGED <<configVars, host, calc, monitor, now, queue, login_timeout_timestamp, response>>

\* call_tool after the await: the cooldown is recorded on a login timeout
\* error, and the result is formatted
CallReturn(c) ==
    /\ deployment = "mcp_server"
    /\ pc[c] = "finished"
    /\ LET result == call[c].result
       IN CASE call[c].raised ->
                 /\ Respond(c, "search_raised")
                 /\ UNCHANGED login_timeout_timestamp
            [] ~call[c].raised /\ ~result.success
                  /\ IsLoginTimeoutError(result.error) ->
                 /\ login_timeout_timestamp' = now
                 /\ Respond(c, "timeout_cooldown_started")
            [] ~call[c].raised /\ ~result.success
                  /\ ~IsLoginTimeoutError(result.error) ->
                 /\ Respond(c, "search_failed")
                 /\ UNCHANGED login_timeout_timestamp
            [] OTHER ->
                 /\ Respond(c, "formatted_result")
                 /\ UNCHANGED login_timeout_timestamp
    /\ pc' = [pc EXCEPT ![c] = "idle"]
    /\ UNCHANGED <<configVars, host, calc, monitor, searcher, now, launched, last, queue>>

(***************************************************************************)
(* _wait_for_streaming_complete: the streaming monitor, one tick of its    *)
(* loop at a time.                                                         *)
(***************************************************************************)
max_wait_seconds == 30
stable_threshold == 3
SyncMinContentLength == 500
AsyncMinContentLength == 200

\* for i in range(max_wait_seconds * 2) / range(int(max_wait_seconds / 0.5))
MonitorTicks_one_more == max_wait_seconds * 2 + 1

MonitorTicks == max_wait_seconds * 2

\* What one tick reads: whether reading the page raises, the length of the
\* page text, a visible loading indicator, a loading keyword in the text,
\* a visible follow-up input
TickObs(raises, length, indicator, keyword, follow_up) ==
    [raises |-> raises, length |-> length, indicator |-> indicator,
     keyword |-> keyword, follow_up |-> follow_up]

SyncVerdict_ignores_keyword(mon, o) ==
    IF o.follow_up /\ o.length >= SyncMinContentLength THEN "follow_up"
    ELSE IF o.indicator THEN "loading"
    ELSE IF o.length = mon.last_content_length
    THEN (IF o.length >= SyncMinContentLength THEN "stable" ELSE "short")
    ELSE "changed"

SyncVerdict_loading_first(mon, o) ==
    IF o.indicator \/ o.keyword THEN "loading"
    ELSE IF o.follow_up /\ o.length >= SyncMinContentLength THEN "follow_up"
    ELSE IF o.length = mon.last_content_length
    THEN (IF o.length >= SyncMinContentLength THEN "stable" ELSE "short")
    ELSE "changed"

\* The branch the sync loop body takes on what it read
SyncVerdict(mon, o) ==
    IF o.follow_up /\ o.length >= SyncMinContentLength THEN "follow_up"
    ELSE IF o.indicator \/ o.keyword THEN "loading"
    ELSE IF o.length = mon.last_content_length
    THEN (IF o.length >= SyncMinContentLength THEN "stable" ELSE "short")
    ELSE "changed"

AsyncVerdict_change_not_reset(mon, o) ==
    IF o.follow_up /\ o.length >= AsyncMinContentLength THEN "follow_up"
    ELSE IF o.length = mon.last_content_length
            /\ o.length >= AsyncMinContentLength
    THEN (IF ~o.keyword THEN "stable" ELSE "loading")
    ELSE "short"

\* The branch the async loop body takes on what it read; it does not look
\* at the loading indicators
AsyncVerdict(mon, o) ==
    IF o.follow_up /\ o.length >= AsyncMinContentLength THEN "follow_up"
    ELSE IF o.length = mon.last_content_length
            /\ o.length >= AsyncMinContentLength
    THEN (IF ~o.keyword THEN "stable" ELSE "loading")
    ELSE IF o.length # mon.last_content_length THEN "changed"
    ELSE "short"

\* Whether the branch returns True
ReturnsTrue(mon, verdict) ==
    \/ verdict = "follow_up"
    \/ verdict = "stable" /\ mon.stable_count + 1 >= stable_threshold

\* The locals after the loop body took the branch; the loop ends with
\* False after its last tick. What the ticks read is kept beside the
\* locals: run counts the ticks in a row, up to this one, that read a text
\* of the length read before and at least min long (quiet: ticks that also
\* saw no loading signal and no follow-up input)
MonitorApply(mon, o, verdict, min) ==
    [i |-> mon.i + 1,
     run |-> IF o.length = mon.last_content_length /\ o.length >= min
             THEN Min(mon.run + 1, stable_threshold) ELSE 0,
     quiet |-> IF /\ o.length = mon.last_content_length /\ o.length >= min
                  /\ ~o.indicator /\ ~o.keyword /\ ~o.follow_up
               THEN Min(mon.quiet + 1, stable_threshold) ELSE 0,
     obs |-> o,
     path |-> verdict,
     stable_count |->
         CASE verdict = "stable" -> mon.stable_count + 1
           [] verdict \in {"loading", "changed"} -> 0
           [] OTHER -> mon.stable_count,
     last_content_length |->
         IF ReturnsTrue(mon, verdict) THEN mon.last_content_length
         ELSE o.length,
     ret |-> IF ReturnsTrue(mon, verdict) THEN "true"
             ELSE IF mon.i + 1 = MonitorTicks THEN "false"
             ELSE "none"]

\* One tick of the sync monitor; an exception leaves the loop
SyncMonitorStep(mon, o) ==
    IF o.raises
    THEN [mon EXCEPT !.i = @ + 1, !.obs = o, !.path = "error", !.ret = "false",
                     !.run = 0, !.quiet = 0]
    ELSE MonitorApply(mon, o, SyncVerdict(mon, o), SyncMinContentLength)

\* One tick of the async monitor; an exception is logged and the loop goes on
AsyncMonitorStep(mon, o) ==
    IF o.raises
    THEN [mon EXCEPT !.i = @ + 1, !.obs = o, !.path = "error",
                     !.run = 0, !.quiet = 0,
                     !.ret = IF mon.i + 1 = MonitorTicks THEN "false"
                             ELSE "none"]
    ELSE MonitorApply(mon, o, AsyncVerdict(mon, o), AsyncMinContentLength)

\* The monitor of the deployment's class goes through one tick
MonitorTick ==
    /\ monitor.ret = "none"
    /\ \E o \in {TickObs(FALSE, n, i, k, f) :
                     n \in {AsyncMinContentLength - 1, AsyncMinContentLength,
                            SyncMinContentLength - 1, SyncMinContentLength},
                     i \in BOOLEAN, k \in BOOLEAN, f \in BOOLEAN}
                 \cup {TickObs(TRUE, 0, FALSE, FALSE, FALSE)} :
          monitor' = IF deployment = "async_api"
                     THEN AsyncMonitorStep(monitor, o)
                     ELSE SyncMonitorStep(monitor, o)
    /\ UNCHANGED <<configVars, host, calc, searcher, now, launched, last, serverVars>>

(***************************************************************************)
(* The shared login snapshot: _save_storage_state and _load_storage_state  *)
(* run by several processes on one directory.                              *)
(***************************************************************************)
NumProcs == 2

\* _get_storage_state_path()
state_path == <<"storage_state.json">>

temp_path_without_pid(pid) == <<"storage_state.json", "tmp">>

\* f"{state_path}.{os.getpid()}.tmp"
temp_path(pid) == <<"storage_state.json", pid, "tmp">>

\* No file at a path; a file is the snapshot of the process that wrote it,
\* complete once context.storage_state(path=...) has returned
NoFile == [exists |-> FALSE, by |-> None, complete |-> FALSE]

\* _save_storage_state in process p, one system call at a time
SaveStorageState(p) ==
    LET f == host.files
        temp == temp_path(p)
        At(pos) == host.io[p].pc = pos
        Go(pos, files) ==
            host' = [host EXCEPT !.files = files, !.io[p].pc = pos]
        renamed == [f EXCEPT ![state_path] = f[temp], ![temp] = NoFile]
    IN /\ \/ \* context.storage_state(path=temp_path) creates the file
             At("idle") /\ Go("writing", [f EXCEPT ![temp] =
                                 [exists |-> TRUE, by |-> p, complete |-> FALSE]])
          \/ \* and returns when it is written
             At("writing") /\ f[temp].exists
                /\ Go("written", [f EXCEPT ![temp].complete = TRUE])
          \/ \* or raises
             At("writing") /\ Go("failed", f)
          \/ \* os.replace(temp_path, state_path)
             At("written") /\ f[temp].exists /\ Go("idle", renamed)
          \/ \* raises OSError
             At("written") /\ Go("fallback", f)
          \/ \* if os.path.exists(state_path): os.remove(state_path)
             At("fallback") /\ Go("removed", [f EXCEPT ![state_path] = NoFile])
          \/ \* os.remove raises
             At("fallback") /\ f[state_path].exists /\ Go("failed", f)
          \/ \* os.rename(temp_path, state_path)
             At("removed") /\ f[temp].exists /\ Go("idle", renamed)
          \/ \* raises: no temporary file, or the target exists again
             At("removed") /\ (~f[temp].exists \/ f[state_path].exists)
                /\ Go("failed", f)
          \/ \* except Exception: remove the temporary file, return False
             At("failed") /\ Go("idle", [f EXCEPT ![temp] = NoFile])
       /\ UNCHANGED <<configVars, calc, monitor, searcher, now, launched, last,
                      serverVars>>

\* _load_storage_state in process p, and the browser context that then reads
\* the file at the path it returned
LoadStorageState(p) ==
    /\ \/ /\ host.io[p].pc = "idle"
          /\ host.files[state_path].exists
          /\ host' = [host EXCEPT !.io[p].pc = "loaded"]
       \/ /\ host.io[p].pc = "idle"
          /\ ~host.files[state_path].exists
          /\ host' = [host EXCEPT !.io[p].seen = NoFile]
       \/ /\ host.io[p].pc = "loaded"
          /\ host' = [host EXCEPT !.io[p].pc = "idle",
                                  !.io[p].seen = host.files[state_path]]
    /\ UNCHANGED <<configVars, calc, monitor, searcher, now, launched, last,
                   serverVars>>

(***************************************************************************)
(* _detect_proxy: environment variables first, then the local ports.       *)
(***************************************************************************)
\* A proxy address scheme://host:port; None has the scheme "none"
NoProxy == [scheme |-> "none", port |-> None]

ProxyVariables ==
    {"HTTP_PROXY", "http_proxy", "HTTPS_PROXY", "https_proxy", "ALL_PROXY",
     "all_proxy"}

\* GoogleAISearcher._detect_proxy
SyncDetectProxy(env, open) ==
    LET env_vars == <<"HTTP_PROXY", "http_proxy", "HTTPS_PROXY", "https_proxy",
                      "ALL_PROXY", "all_proxy">>
        common_ports == <<[scheme |-> "http", port |-> 10809],
                          [scheme |-> "http", port |-> 7890],
                          [scheme |-> "socks5", port |-> 10808],
                          [scheme |-> "socks5", port |-> 7891],
                          [scheme |-> "socks5", port |-> 1080]>>
        set == {i \in 1..Len(env_vars) : env[env_vars[i]] # NoProxy}
        found == {i \in 1..Len(common_ports) : common_ports[i].port \in open}
    IN IF set # {} THEN env[env_vars[FirstOf(set)]]
       ELSE IF found # {} THEN common_ports[FirstOf(found)]
       ELSE NoProxy

\* AsyncGoogleAISearcher._detect_proxy
AsyncDetectProxy(env, open) ==
    LET env_vars == <<"HTTP_PROXY", "http_proxy", "HTTPS_PROXY", "https_proxy">>
        common_ports == <<[scheme |-> "socks5", port |-> 10808],
                          [scheme |-> "http", port |-> 10809],
                          [scheme |-> "http", port |-> 7890],
                          [scheme |-> "socks5", port |-> 7891],
                          [scheme |-> "socks5", port |-> 1080]>>
        set == {i \in 1..Len(env_vars) : env[env_vars[i]] # NoProxy}
        found == {i \in 1..Len(common_ports) : common_ports[i].port \in open}
    IN IF set # {} THEN env[env_vars[FirstOf(set)]]
       ELSE IF found # {} THEN common_ports[FirstOf(found)]
       ELSE NoProxy

\* What the machine offers before a controller looks: which variables are
\* set, which local ports accept a connection
ProxyEnvironment ==
    /\ \E S \in SUBSET {"HTTPS_PROXY", "all_proxy"},
          open \in SUBSET {10809, 7890, 10808, 7891, 1080} :
          host' = [host EXCEPT !.proxy =
                      [env |-> [v \in ProxyVariables |->
                                   IF v \in S
                                   THEN [scheme |-> IF v = "all_proxy"
                                                    THEN "socks5" ELSE "http",
                                         port |-> 3128]
                                   ELSE NoProxy],
                       open |-> open, result |-> NoProxy, resolved |-> FALSE]]
    /\ UNCHANGED <<configVars, calc, monitor, searcher, now, launched, last,
                   serverVars>>

\* The controller of the deployment's class resolves its proxy
DetectProxyCall ==
    /\ ~host.proxy.resolved
    /\ host' = [host EXCEPT
                   !.proxy.result =
                       IF deployment = "async_api"
                       THEN AsyncDetectProxy(host.proxy.env, host.proxy.open)
                       ELSE SyncDetectProxy(host.proxy.env, host.proxy.open),
                   !.proxy.resolved = TRUE]
    /\ UNCHANGED <<configVars, calc, monitor, searcher, now, launched, last,
                   serverVars>>

(***************************************************************************)
(* The specification.                                                      *)
(***************************************************************************)
Init ==
    /\ deployment \in {"sync_api", "async_api", "mcp_server"}
    /\ browser_path \in BOOLEAN
    /\ use_user_data \in BOOLEAN
    /\ deployment # "sync_api" => use_user_data
    /\ searcher = [playwright |-> None, browser |-> None, context |-> None,
                   page |-> None, tab |-> None, session_active |-> FALSE,
                   last_activity_time |-> 0, last_ai_answer |-> EmptyStr]
    /\ now = 1
    /\ launched = 0
    /\ last = [op |-> "none", ret |-> FALSE, result |-> NoResult,
               raised |-> FALSE, idle |-> -1, at |-> 0, ev |-> <<>>,
               full |-> EmptyStr, refull |-> EmptyStr, polls |-> 0,
               script |-> NoScript, query |-> EmptyStr]
    /\ pc = [c \in Calls |-> "idle"]
    /\ queue = <<>>
    /\ login_timeout_timestamp = None
    /\ call = [c \in Calls |-> InitCall]
    /\ response = [call |-> None, kind |-> "none"]
    /\ monitor = [i |-> 0, last_content_length |-> 0, stable_count |-> 0,
                  ret |-> "none", path |-> "none",
                  obs |-> TickObs(FALSE, 0, FALSE, FALSE, FALSE),
                  run |-> 0, quiet |-> 0]
    /\ host = [files |-> [path \in {state_path}
                                      \cup {temp_path(p) : p \in 1..NumProcs}
                             |-> NoFile],
               io |-> [p \in 1..NumProcs |-> [pc |-> "idle", seen |-> NoFile]],
               proxy |-> [env |-> [v \in ProxyVariables |-> NoProxy],
                          open |-> {}, result |-> NoProxy, resolved |-> FALSE]]
    /\ calc = [fn |-> "none", args |-> <<>>, out |-> <<>>, ok |-> FALSE]

Next ==
    \/ SyncHasActiveSessionCall
    \/ SyncCloseSessionCall
    \/ SyncEnsureSessionCall
    \/ SyncSearchCall
    \/ SyncContinueConversationCall
    \/ AsyncHasActiveSessionCall
    \/ AsyncCloseSessionCall
    \/ AsyncEnsureSessionCall
    \/ AsyncSearchCall
    \/ AsyncContinueConversationCall
    \/ Tick
    \/ \E c \in Calls : CallTool(c)
    \/ \E c \in Calls : ExecutorStart(c)
    \/ \E c \in Calls : ExecutorRun(c)
    \/ \E c \in Calls : CallReturn(c)

Spec == Init /\ [][Next]_vars

\* A controller that has a browser and runs in persistent mode: where the
\* streaming monitor, the snapshot and the proxy resolution are looked at on
\* their own
MonitorInit == Init /\ browser_path /\ use_user_data

\* The search that waited for this run of the monitor goes on from where
\* the monitor returned
MonitorCaller ==
    /\ monitor.ret # "none"
    /\ last.op = "none"
    /\ \E env \in ToolEnvs, query \in Queries :
          IF deployment = "async_api"
          THEN Commit("search",
                      AsyncSearch(Enter, [env EXCEPT !.streaming =
                                              (monitor.ret = "true")], query),
                      query)
          ELSE Commit("search",
                      SyncSearch(Enter, [env EXCEPT !.streaming =
                                             (monitor.ret = "true")], query),
                      query)
    /\ UNCHANGED <<configVars, host, calc, monitor, now, serverVars>>

MonitorSpec == MonitorInit /\ [][MonitorTick \/ MonitorCaller]_vars

\* Processes in persistent mode save and load the snapshot
SnapshotSpec ==
    MonitorInit
        /\ [][\E p \in 1..NumProcs :
                 SaveStorageState(p) \/ LoadStorageState(p)]_vars

\* A controller of either class resolves its proxy on a machine whose
\* variables and ports are any of those enumerated
ProxySpec == MonitorInit /\ [][ProxyEnvironment \/ DetectProxyCall]_vars

\* ---------------------------------------------------------------------------
\* The helpers that read no controller state, called on enumerated arguments
\* ---------------------------------------------------------------------------

\* Length of the longest short text the helpers are called with
MaxPart == 2

\* The arguments of the diff engine: a page made of the previous answer, the
\* echoed query and the new answer, and a page that is anything else.
\* Parts are the short texts: a letter, the letter of the query, a blank.
\* LongPrevious is a previous answer long enough for the core strategy (more
\* than 100), its first and last characters unlike its middle. DriftedPages
\* hold the middle of LongPrevious but neither its start nor the whole of it,
\* with nothing and with something after the estimated end, or start like a
\* short answer and go on after a line break.
DiffArguments ==
    LET Parts == UNION {[1..n -> {"a", "q", " "}] : n \in 0..MaxPart}
        LongPrevious == <<"h">> \o [i \in 1..120 |-> "m"] \o <<"t">>
        DriftedPages ==
            {<<"z">> \o [i \in 1..110 |-> "m"],
             <<"z">> \o [i \in 1..110 |-> "m"] \o <<"n", "e", "w">>,
             <<"a", "b", "\n", "c">>}
    IN {<<p \o q \o n, p, q>> : p \in Parts, q \in Parts, n \in Parts}
         \cup {<<f, p, q>> : f \in Parts \cup DriftedPages,
                             p \in Parts \cup {LongPrevious},
                             q \in {EmptyStr, <<"q">>}}

\* A filter that stops one entry late
filter_sources_one_more(sources, max_count) ==
    LET RECURSIVE loop(_, _)
        loop(rest, filtered) ==
            IF rest = <<>> THEN filtered
            ELSE LET url == Head(rest).url
                 IN IF \/ Contains(url, <<"google", ".com">>)
                       \/ Contains(url, <<"accounts.", "google">>)
                    THEN loop(Tail(rest), filtered)
                    ELSE IF \E i \in DOMAIN filtered : filtered[i].url = url
                    THEN loop(Tail(rest), filtered)
                    ELSE IF Len(filtered) + 1 > max_count
                    THEN Append(filtered, Head(rest))
                    ELSE loop(Tail(rest), Append(filtered, Head(rest)))
    IN loop(sources, <<>>)

\* GoogleAISearcher.filter_sources: seen_urls holds the urls of filtered
filter_sources(sources, max_count) ==
    LET RECURSIVE loop(_, _)
        loop(rest, filtered) ==
            IF rest = <<>> THEN filtered
            ELSE LET url == Head(rest).url
                 IN IF \/ Contains(url, <<"google", ".com">>)
                       \/ Contains(url, <<"accounts.", "google">>)
                    THEN loop(Tail(rest), filtered)
                    ELSE IF \E i \in DOMAIN filtered : filtered[i].url = url
                    THEN loop(Tail(rest), filtered)
                    ELSE IF Len(filtered) + 1 >= max_count
                    THEN Append(filtered, Head(rest))
                    ELSE loop(Tail(rest), Append(filtered, Head(rest)))
    IN loop(sources, <<>>)

\* Length of the longest list of links enumerated in full
MaxSources == 3

\* One call of filter_sources with the default max_count, on every list of
\* up to MaxSources links to four places (the engine's search page, its
\* account page under another suffix, two other sites) and on lists of 9 to
\* 12 links to different sites with at most one of the four before and after
\* them; the title of a link is its position in the list
FilterSourcesCall ==
    /\ calc.fn = "none"
    /\ LET Urls == {<<"https://", "google", ".com", "/search">>,
                    <<"https://", "accounts.", "google", ".cn">>,
                    <<"https://", "example", ".com">>,
                    <<"https://", "other", ".org">>}
           Lists(n) == UNION {[1..k -> Urls] : k \in 0..n}
           Sites == <<"s1", "s2", "s3", "s4", "s5", "s6", "s7", "s8", "s9",
                      "s10", "s11", "s12">>
           Numbered(n) == [i \in 1..n |-> <<"https://", Sites[i], ".com">>]
       IN \E urls \in Lists(MaxSources)
                        \cup {b \o Numbered(n) \o e :
                                 b \in Lists(1), e \in Lists(1), n \in 9..12} :
             LET sources == [i \in DOMAIN urls |->
                                [url |-> urls[i], title |-> i]]
             IN calc' = [fn |-> "filter_sources", args |-> <<sources>>,
                         ok |-> TRUE, out |-> filter_sources(sources, 10)]
    /\ UNCHANGED <<configVars, host, monitor, searcher, now, launched, last,
                   serverVars>>

\* str.lower over the words the texts are made of: a text is a sequence of
\* words and blanks, a word is written in lower or in upper case, and the
\* words of the Chinese keywords have no case
lower(text) ==
    LET cased == {<<"UNUSUAL", "unusual">>, <<"TRAFFIC", "traffic">>,
                  <<"AUTOMATED", "automated">>, <<"REQUESTS", "requests">>,
                  <<"PROVE", "prove">>, <<"YOU'RE", "you're">>,
                  <<"NOT", "not">>, <<"A", "a">>, <<"ROBOT", "robot">>,
                  <<"VERIFY", "verify">>, <<"HUMAN", "human">>,
                  <<"RE", "re">>, <<"CAPTCHA", "captcha">>,
                  <<"WEATHER", "weather">>}
    IN [i \in DOMAIN text |->
           IF \E c \in cased : c[1] = text[i]
           THEN (CHOOSE c \in cased : c[1] = text[i])[2]
           ELSE text[i]]

\* GoogleAISearcher._is_captcha_page with GoogleAISearcher.CAPTCHA_KEYWORDS
SyncIsCaptchaPage(content) ==
    LET CAPTCHA_KEYWORDS ==
            <<<<"yichangliuliang">>,
              <<"womendexitongjiancedao">>,
              <<"unusual", " ", "traffic">>,
              <<"automated", " ", "requests">>,
              <<"yanzhengninshizhenren">>,
              <<"prove", " ", "you're", " ", "not", " ", "a", " ", "robot">>,
              <<"re", "captcha">>>>
        content_lower == lower(content)
    IN \E i \in DOMAIN CAPTCHA_KEYWORDS :
          Contains(content_lower, lower(CAPTCHA_KEYWORDS[i]))

\* AsyncGoogleAISearcher._is_captcha_page with
\* AsyncGoogleAISearcher.CAPTCHA_KEYWORDS
AsyncIsCaptchaPage(content) ==
    LET CAPTCHA_KEYWORDS ==
            <<<<"yichangliuliang">>,
              <<"womendexitongjiancedao">>,
              <<"yanzhengninshizhenren">>,
              <<"unusual", " ", "traffic">>,
              <<"automated", " ", "requests">>,
              <<"prove", " ", "you're", " ", "not", " ", "a", " ", "robot">>,
              <<"verify", " ", "you're", " ", "human">>,
              <<"re", "captcha">>,
              <<"captcha">>>>
        content_lower == lower(content)
    IN IF content = EmptyStr THEN FALSE
       ELSE \E i \in DOMAIN CAPTCHA_KEYWORDS :
               Contains(content_lower, lower(CAPTCHA_KEYWORDS[i]))

\* One call of _is_captcha_page of the class the deployment uses, on a text
\* that is a keyword of either class with each word in either case, alone or
\* inside other text, or a text made of other words and of parts of keywords
IsCaptchaPageCall ==
    /\ calc.fn = "none"
    /\ LET upper(w) ==
               CASE w = "unusual" -> "UNUSUAL" [] w = "traffic" -> "TRAFFIC"
                 [] w = "automated" -> "AUTOMATED"
                 [] w = "requests" -> "REQUESTS" [] w = "prove" -> "PROVE"
                 [] w = "you're" -> "YOU'RE" [] w = "not" -> "NOT"
                 [] w = "a" -> "A" [] w = "robot" -> "ROBOT"
                 [] w = "verify" -> "VERIFY" [] w = "human" -> "HUMAN"
                 [] w = "re" -> "RE" [] w = "captcha" -> "CAPTCHA"
                 [] OTHER -> w
           keywords ==
               {<<"yichangliuliang">>, <<"womendexitongjiancedao">>,
                <<"yanzhengninshizhenren">>, <<"unusual", " ", "traffic">>,
                <<"automated", " ", "requests">>,
                <<"prove", " ", "you're", " ", "not", " ", "a", " ", "robot">>,
                <<"verify", " ", "you're", " ", "human">>,
                <<"re", "captcha">>, <<"captcha">>}
           variants ==
               {[i \in DOMAIN k |-> IF i \in S THEN upper(k[i]) ELSE k[i]] :
                   k \in keywords, S \in SUBSET (1..9)}
           others ==
               {EmptyStr, <<"ai", " ", "mode">>, <<"unusual", " ", "WEATHER">>,
                <<"traffic", " ", "unusual">>, <<"re", "search">>,
                <<"prove", " ", "you're", " ", "a", " ", "robot">>,
                <<"HUMAN">>, <<"automated", "requests">>}
       IN \E content \in variants \cup others
                \cup {<<"ai", " ">> \o v \o <<" ", "mode">> : v \in variants} :
             calc' = [fn |-> "_is_captcha_page", args |-> <<content>>,
                      out |-> EmptyStr,
                      ok |-> IF deployment = "async_api"
                             THEN AsyncIsCaptchaPage(content)
                             ELSE SyncIsCaptchaPage(content)]
    /\ UNCHANGED <<configVars, host, monitor, searcher, now, launched, last,
                   serverVars>>

\* One call of _remove_previous_content, of _extract_incremental_content, or
\* of the diff written out in GoogleAISearcher.continue_conversation
DiffCall ==
    /\ calc.fn = "none"
    /\ \E a \in DiffArguments,
          fn \in {"_remove_previous_content", "_extract_incremental_content",
                  "continue_conversation"} :
          calc' = [fn |-> fn, args |-> a, ok |-> TRUE,
                   out |-> CASE fn = "_remove_previous_content" ->
                                    RemovePreviousContent(a[1], a[2])
                             [] fn = "_extract_incremental_content" ->
                                    ExtractIncrementalContent(a[1], a[2], a[3])
                             [] OTHER ->
                                    SyncIncrementalAnswer(a[1], a[2], a[3])]
    /\ UNCHANGED <<configVars, host, monitor, searcher, now, launched, last,
                   serverVars>>

\* A helper called on any of the arguments: a helper reads nothing that an
\* earlier call wrote, so one call after construction is every call
FunctionSpec ==
    MonitorInit /\ [][DiffCall \/ FilterSourcesCall \/ IsCaptchaPageCall]_vars

(***************************************************************************)
(* Properties of the session lifecycle.  last describes the most recent    *)
(* call; no later call has touched the controller, so searcher is the      *)
(* state that call left.                                                   *)
(***************************************************************************)
AllReleased ==
    /\ searcher.playwright = None
    /\ searcher.browser = None
    /\ searcher.context = None
    /\ searcher.page = None
    /\ searcher.tab = None

FoundExpired == last.idle > SESSION_TIMEOUT

Before(ev, a, b) ==
    \E i, j \in 1..Len(ev) : i < j /\ ev[i] = a /\ ev[j] = b

\* C1: has_active_session returns true only if a session exists and it has
\* been idle for at most SESSION_TIMEOUT seconds; whenever the session has
\* been idle longer it returns false.
C1_ActiveOnlyWithinTimeout ==
    last.op = "has_active_session" =>
        /\ last.ret => last.idle \in 0..SESSION_TIMEOUT
        /\ FoundExpired => ~last.ret

\* has_active_session accepted a session idle for exactly SESSION_TIMEOUT
C1_Witness ==
    /\ last.op = "has_active_session"
    /\ last.idle = SESSION_TIMEOUT
    /\ last.ret

\* C2 as stated: whenever has_active_session finds an existing session whose
\* timeout has elapsed, the session is inactive and its handles are released
\* when the call returns false.
C2_TornDownOnReturn ==
    last.op = "has_active_session" /\ FoundExpired =>
        ~last.ret /\ ~searcher.session_active /\ AllReleased

\* C2, amended: GoogleAISearcher.has_active_session has torn the expired
\* session down when it returns false; AsyncGoogleAISearcher.has_active_session
\* returns false and leaves the expired session as it is, and the next
\* _ensure_session closes it before it starts a browser.
C2_TeardownSyncOrDeferred ==
    /\ last.op = "has_active_session" /\ FoundExpired /\ deployment = "sync_api" =>
          /\ ~last.ret
          /\ Happened(last.ev, "closed")
          /\ ~searcher.session_active /\ AllReleased
    /\ last.op = "has_active_session" /\ FoundExpired /\ deployment = "async_api" =>
          /\ ~last.ret
          /\ last.ev = <<"timeout_detected">>
          /\ SessionExists
    /\ last.op = "ensure_session" /\ FoundExpired /\ deployment = "async_api" =>
          /\ Before(last.ev, "closed", "starting")
          /\ last.ret => Happened(last.ev, "started")

\* has_active_session found an expired session and closed it
C2_Witness ==
    /\ last.op = "has_active_session"
    /\ FoundExpired
    /\ Happened(last.ev, "released")
    /\ ~last.ret

\* C3 as stated: ensure_session starts a new browser and page whenever no
\* session is active or the active one has exceeded the session timeout, and
\* never returns true leaving a session idle longer than SESSION_TIMEOUT.
C3_EnsureSessionReplacesExpired ==
    last.op = "ensure_session" =>
        /\ last.idle = -1 \/ FoundExpired =>
              Happened(last.ev, "starting") \/ Happened(last.ev, "start_failed")
        /\ last.ret /\ FoundExpired => Happened(last.ev, "started")

\* C4 as stated: continue_conversation never submits the follow-up into a
\* session idle longer than the session timeout; the session is destroyed
\* and a new search is performed.
C4_ExpiredSessionNotReused ==
    last.op = "continue_conversation" /\ FoundExpired =>
        /\ ~Happened(last.ev, "followup_submitted")
        /\ Happened(last.ev, "closed")
        /\ Happened(last.ev, "fallback_search")

\* A second close_session, whatever closing a handle does
CloseAgain(fails) ==
    IF deployment = "async_api" THEN AsyncCloseSession(Enter, fails)
    ELSE SyncCloseSession(Enter, fails)

\* C5: close_session returns normally in any state, also when closing a
\* handle raises; it leaves the session inactive with every handle released,
\* and a second call changes nothing.
C5_CloseSessionIdempotent ==
    last.op = "close_session" =>
        /\ ~last.raised
        /\ ~searcher.session_active
        /\ AllReleased
        /\ searcher.last_ai_answer = EmptyStr
        /\ \A fails \in SUBSET {"page", "context", "browser", "playwright"} :
              /\ CloseAgain(fails).s = searcher
              /\ ~CloseAgain(fails).exc

\* close_session closed an active session whose handle raised on close
C5_Witness ==
    /\ last.op = "close_session"
    /\ last.idle >= 0
    /\ Happened(last.ev, "close_error_logged")
    /\ Happened(last.ev, "released")

\* C6 as stated: the session moves INACTIVE -> STARTING -> ACTIVE ->
\* {TIMEOUT, ERROR, CLOSED} -> INACTIVE: it is active only after a
\* successful start, a timeout, error or close ends in teardown, and no call
\* that finds the session timed out leaves that session marked active.
C6_StateMachine ==
    /\ searcher.session_active => SessionExists
    /\ last.idle = -1 /\ searcher.session_active =>
          Before(last.ev, "starting", "started")
    /\ (\E i \in 1..Len(last.ev) :
           /\ last.ev[i] \in {"closed", "start_failed"}
           /\ \A j \in (i + 1)..Len(last.ev) : last.ev[j] # "started") =>
          ~searcher.session_active /\ AllReleased
    /\ FoundExpired /\ searcher.session_active /\ last.op # "has_active_session" =>
          Before(last.ev, "closed", "started")

\* C7: whatever the interleaving of tool calls, at most one search (with its
\* wait for manual verification) is running on the controller at a time.
C7_OneSearchInFlight == Cardinality(Running) <= 1

\* One search is running while another tool call waits for the worker
C7_Witness ==
    \E c, d \in Calls : pc[c] = "running" /\ pc[d] = "queued"

Turns == {"search", "continue_conversation"}

C9_TurnsNeverRaise ==
    last.op \in Turns =>
        /\ ~last.raised
        /\ last.result.returned
        /\ last.result.success =>
              \E e \in {"extracted", "temp_extracted", "followup_extracted",
                        "visible_closed"} : Happened(last.ev, e)
        /\ ~last.result.success => last.result.error # EmptyStr

\* A follow-up failed, and so did the search that replaced it
C9_Witness ==
    /\ last.op = "continue_conversation"
    /\ Happened(last.ev, "followup_submitted")
    /\ Happened(last.ev, "fallback_search")
    /\ ~last.result.success
    /\ ~last.raised

Routed(ev) == Happened(ev, "intervention") \/ Happened(ev, "driver_failed")

\* C11: a turn whose navigation fails (the goto of a search or of a
\* follow-up's new search raises) is routed to the user-intervention handler
C11_NavigationFailureRouted ==
    (last.op \in Turns /\ Happened(last.ev, "nav_failed")) => Routed(last.ev)

\* C12: a turn that finds a verification page is routed to the
\* user-intervention handler
C12_CaptchaRouted ==
    (last.op \in Turns /\ Happened(last.ev, "captcha")) => Routed(last.ev)

\* C13: the handler never opens the visible window while the controller
\* still holds a session, and the controller holds none when the handler
\* is done
C13_TeardownBeforeVisible ==
    Happened(last.ev, "visible_opened") =>
        /\ ~Happened(last.ev, "session_held")
        /\ ~searcher.session_active
        /\ AllReleased

C13_Witness ==
    /\ Happened(last.ev, "visible_opened")
    /\ last.idle >= 0
    /\ Before(last.ev, "closed", "visible_opened")

\* C14: the handler returns an extracted answer only from a poll whose
\* page is not a verification page, whose URL has no "sorry", and that has
\* an AI-mode marker or more than 1000 characters; at a poll it could read
\* where that fails it keeps polling, until its polls are used up
C14_PollReadiness ==
    LET o == ObsAt(last.script, last.polls)
        ready == ~o.captcha /\ ~o.sorry /\ (o.marker \/ o.len > 1000)
    IN /\ Happened(last.ev, "intervention_extracted") =>
             (last.polls >= 1 /\ ready)
       /\ (Happened(last.ev, "visible_opened") /\ ~o.raises /\ ~ready) =>
             (/\ Happened(last.ev, "intervention_timeout")
              /\ ~Happened(last.ev, "intervention_extracted"))

C14_Witness ==
    /\ Happened(last.ev, "intervention_extracted")
    /\ last.polls > 1
    /\ ObsAt(last.script, last.polls - 1).captcha
    /\ ObsAt(last.script, last.polls).len > 1000

\* C15: the handler polls every 2 seconds for at most 300 seconds, 150 polls;
\* when no poll was ready the turn fails with the timeout error
C15_PollBudget ==
    /\ last.polls <= 300 \div 2
    /\ Happened(last.ev, "intervention_timeout") =>
          /\ last.polls = 300 \div 2
          /\ ~last.result.success
          /\ last.result.error = ErrInterventionTimeout
    /\ (Happened(last.ev, "visible_opened")
          /\ ~Happened(last.ev, "intervention_timeout")) =>
          \E i \in 1 .. (300 \div 2) :
              ObsAt(last.script, i).raises \/ PollReady(ObsAt(last.script, i))

C15_Witness ==
    /\ Happened(last.ev, "intervention_timeout")
    /\ last.polls = 150
    /\ last.script.at = 151


\* C16: when the search a call awaited ended in the handler's timeout, the
\* cooldown timestamp is the current time once the call has returned
C16_CooldownRecordedOnTimeout ==
    [][\A c \in Calls :
          (/\ pc[c] = "finished" /\ pc'[c] = "idle"
           /\ ~call[c].raised
           /\ ~call[c].result.success
           /\ call[c].result.error = ErrInterventionTimeout)
             => /\ login_timeout_timestamp' = now'
                /\ response'.kind = "timeout_cooldown_started"]_vars

C16_Witness ==
    /\ response.kind = "timeout_cooldown_started"
    /\ login_timeout_timestamp = now
    /\ Happened(last.ev, "intervention_timeout")
    /\ last.polls = 150

\* Call c arrives: it is answered at once or submitted to the executor
Arrives(c) ==
    /\ pc[c] = "idle"
    /\ \/ pc'[c] = "queued"
       \/ response' # response /\ response'.call = c

\* Less than 300 s have passed since the recorded timestamp
CooldownActive ==
    login_timeout_timestamp # None /\ now - login_timeout_timestamp < 300

\* C17: while a cooldown is active every tool call returns the advisory
\* and starts no browser operation
C17_AdvisoryDuringCooldown ==
    [][\A c \in Calls :
          (CooldownActive /\ Arrives(c))
             => /\ pc'[c] = "idle"
                /\ response'.kind = "cooldown_advisory"]_vars

\* C17 as amended: while a cooldown is active every tool call that passes
\* the argument checks returns the advisory, and no call is submitted to
\* the executor
C17_AdvisoryForValidCalls ==
    [][\A c \in Calls :
          (CooldownActive /\ Arrives(c))
             => /\ pc'[c] = "idle"
                /\ response'.kind \in {"cooldown_advisory", "error_empty_query",
                                       "raised_unknown_tool"}
                /\ login_timeout_timestamp' = login_timeout_timestamp]_vars

C17_Witness ==
    /\ response.kind = "cooldown_advisory"
    /\ CooldownActive
    /\ Happened(last.ev, "intervention_timeout")

\* C18: a cooldown check that finds a timestamp more than 300 s old resets
\* it to None and gives no advisory; the call goes on to its search
C18_ResetAfterExpiry ==
    [][\A c \in Calls :
          (/\ Arrives(c)
           /\ login_timeout_timestamp # None
           /\ now - login_timeout_timestamp > 300
           /\ response'.kind \notin {"error_empty_query", "raised_unknown_tool"}
                 \/ response' = response)
             => /\ login_timeout_timestamp' = None
                /\ pc'[c] = "queued"
                /\ response' = response]_vars

C18_Witness ==
    \E c \in Calls :
        /\ pc[c] = "queued"
        /\ call[c].elapsed > 300
        /\ login_timeout_timestamp = None
        /\ response.kind = "timeout_cooldown_started"


\* The last tick read the page
TickRead == monitor.i >= 1 /\ ~monitor.obs.raises

\* The last tick saw the follow-up input on a page of at least the minimum
\* length
FollowUpRule ==
    /\ monitor.obs.follow_up
    /\ monitor.obs.length >= (IF deployment = "async_api" THEN 200 ELSE 500)

\* C19: a tick that sees the follow-up input and at least the minimum
\* content length returns true at that tick, whatever the stability counter
\* and the loading signals
C19_FollowUpReturnsTrue ==
    (TickRead /\ FollowUpRule) => (monitor.ret = "true" /\ monitor.path = "follow_up")

C19_Witness ==
    /\ TickRead /\ FollowUpRule
    /\ monitor.ret = "true"
    /\ monitor.obs.indicator /\ monitor.obs.keyword
    /\ monitor.stable_count = 0
    /\ monitor.i > 1
    /\ monitor.obs.length = (IF deployment = "async_api" THEN 200 ELSE 500)

\* C20: a tick that sees a loading indicator, the follow-up rule not
\* firing, leaves the stability counter at zero and does not return true
C20_LoadingIndicatorResets ==
    (TickRead /\ monitor.obs.indicator /\ ~FollowUpRule)
        => (monitor.stable_count = 0 /\ monitor.ret # "true")


\* C21: a tick that reads a loading keyword, the follow-up rule not firing,
\* leaves the stability counter at zero and the monitor polling
C21_LoadingKeywordResets ==
    (TickRead /\ monitor.obs.keyword /\ ~FollowUpRule)
        => (/\ monitor.stable_count = 0
            /\ \/ monitor.ret = "none"
               \/ monitor.ret = "false" /\ monitor.i = 30 * 2)

C21_Witness ==
    /\ TickRead /\ monitor.obs.keyword /\ ~FollowUpRule
    /\ monitor.run >= 2
    /\ ~monitor.obs.indicator
    /\ monitor.stable_count = 0

\* C22: the monitor returns true by stability once 3 ticks in a row have
\* read an unchanged length of at least the minimum, and never after fewer
\* than 3 such ticks in a row
C22_ThreeStableTicks ==
    /\ monitor.quiet >= 3 => (monitor.ret = "true" /\ monitor.path = "stable")
    /\ (monitor.ret = "true" /\ monitor.path = "stable") => monitor.run >= 3

C24_MonitorBoundedAndAdvisory ==
    /\ monitor.i <= 30 * 2
    /\ monitor.i = 30 * 2 => monitor.ret \in {"true", "false"}
    /\ (monitor.ret = "false" /\ monitor.i < 30 * 2) => monitor.obs.raises
    /\ Happened(last.ev, "streaming_timeout") =>
          /\ monitor.ret = "false"
          /\ (~Happened(last.ev, "captcha") /\ last.full # EmptyStr) =>
                (Happened(last.ev, "extracted") /\ last.result.success)

C24_Witness ==
    /\ monitor.i = 60 /\ monitor.ret = "false" /\ ~monitor.obs.raises
    /\ Happened(last.ev, "streaming_timeout")
    /\ Happened(last.ev, "extracted")
    /\ last.result.success


ExtractionFailed(l) ==
    /\ l.result.returned /\ ~l.result.success
    /\ Happened(l.ev, "extracted") \/ Happened(l.ev, "followup_extracted")

\* C26: a turn whose answer extraction fails returns a failed result and keeps
\* the session: it is active afterwards, with the handles it had when the turn
\* began, or those the turn itself started
C26_ExtractionFailureKeepsSession ==
    [][ExtractionFailed(last') =>
          /\ StartsWith(last'.result.error, <<"extracting content failed">>)
          /\ searcher'.session_active
          /\ searcher'.page # None \/ searcher'.tab # None
          /\ \A h \in {"playwright", "browser", "context", "page", "tab"} :
                IF Happened(last'.ev, "started")
                THEN searcher'[h] \in {None, launched'}
                ELSE searcher.session_active /\ searcher'[h] = searcher[h]]_vars

C26_Witness ==
    /\ ExtractionFailed(last)
    /\ last.op = "continue_conversation"
    /\ ~Happened(last.ev, "started")
    /\ searcher.session_active
    /\ searcher.browser # None


\* The session is inactive and holds no handle
SessionClosed ==
    /\ ~searcher.session_active
    /\ \A h \in {"playwright", "browser", "context", "page", "tab"} :
          searcher[h] = None

C28_OneLiveBrowser ==
    /\ \A h, k \in {"playwright", "browser", "context", "page", "tab"} :
          (searcher[h] # None /\ searcher[k] # None) =>
              (searcher[h] = searcher[k] /\ searcher[h] <= launched)
    /\ ~Happened(last.ev, "session_held")
    /\ \A i \in 1..Len(last.ev) :
          last.ev[i] \in {"visible_opened", "temp_opened"} =>
              \E j \in (i + 1)..Len(last.ev) :
                 /\ last.ev[j] = (IF last.ev[i] = "visible_opened"
                                  THEN "visible_closed" ELSE "temp_closed")
                 /\ \A k \in (i + 1)..(j - 1) :
                       last.ev[k] \notin
                           {"starting", "visible_opened", "temp_opened"}

C28_Witness ==
    /\ deployment = "async_api"
    /\ Happened(last.ev, "timeout_detected")
    /\ Before(last.ev, "released", "starting")
    /\ searcher.session_active
    /\ searcher.browser = 2


\* C29: with several processes saving and loading the snapshot, the file at
\* the shared path is never partially written and no reader gets a partial
\* snapshot; whatever appears at the shared path was written completely to
\* the temporary file of one process and moved there by a rename
C29_NoPartialSnapshot ==
    /\ [](/\ host.files[state_path].exists => host.files[state_path].complete
          /\ \A p \in 1..NumProcs :
                host.io[p].seen.exists => host.io[p].seen.complete)
    /\ [][(host.files'[state_path] # host.files[state_path]
             /\ host.files'[state_path].exists) =>
          \E p \in 1..NumProcs :
             /\ host.io[p].pc \in {"written", "removed"}
             /\ host.files[temp_path(p)].complete
             /\ host.files'[state_path] = host.files[temp_path(p)]
             /\ ~host.files'[temp_path(p)].exists]_vars

C29_Witness ==
    /\ host.io[1].seen.exists
    /\ host.io[1].seen.by = 2
    /\ host.io[2].pc = "written"
    /\ host.files[state_path].exists

\* C30: with no proxy variable set and at least one HTTP and one SOCKS5 port
\* among the open local ports, _detect_proxy returns an HTTP proxy
C30_HttpPreferred ==
    (/\ host.proxy.resolved
     /\ \A v \in ProxyVariables : host.proxy.env[v] = NoProxy
     /\ host.proxy.open \cap {10809, 7890} # {}
     /\ host.proxy.open \cap {10808, 7891, 1080} # {}) =>
        host.proxy.result.scheme = "http"

\* The conditions under which the three strategies of _remove_previous_content
\* take the previous answer as located in the page
Located(full_content, previous_content) ==
    \/ Contains(full_content, previous_content)
    \/ StartsWith(full_content,
                  Strip(Slice(previous_content, 0,
                              Min(200, Len(previous_content)))))
    \/ /\ Len(previous_content) > 100
       /\ Contains(full_content,
                   Slice(previous_content, (Len(previous_content) \div 2) - 50,
                         (Len(previous_content) \div 2) + 50))

\* C31: when none of the strategies (exact, prefix, core) locates the previous
\* answer in the page, _remove_previous_content returns the page unchanged;
\* so does the diff of the sync continue_conversation when the previous answer
\* is not in the page
C31_UnlocatedReturnsFull ==
    /\ (/\ calc.fn = "_remove_previous_content"
        /\ ~Located(calc.args[1], calc.args[2])) => calc.out = calc.args[1]
    /\ (/\ calc.fn = "continue_conversation"
        /\ ~Contains(calc.args[1], calc.args[2])) => calc.out = calc.args[1]

C31_Witness ==
    /\ calc.fn = "_remove_previous_content"
    /\ Len(calc.args[2]) > 100
    /\ Len(calc.args[1]) > 2
    /\ ~Located(calc.args[1], calc.args[2])
    /\ calc.out = calc.args[1]

\* Whether the last call was _extract_incremental_content on a page that is
\* previous + query + new, and the new answer of that page
Triple ==
    LET given == /\ calc.fn = "_extract_incremental_content"
                 /\ StartsWith(calc.args[1], calc.args[2] \o calc.args[3])
    IN [given |-> given,
        new |-> IF given
                THEN Slice(calc.args[1], Len(calc.args[2]) + Len(calc.args[3]),
                           Len(calc.args[1]))
                ELSE EmptyStr]

\* C32 as stated, for parts none of which is empty: for a page
\* previous + query + new, the result of _extract_incremental_content never
\* contains previous
C32_NeverContainsPrevious ==
    (/\ Triple.given
     /\ EmptyStr \notin {calc.args[2], calc.args[3], Triple.new}) =>
        ~Contains(calc.out, calc.args[2])

\* C32: for a page previous + query + new with a non-empty previous that does
\* not occur in query + new, the result of _extract_incremental_content never
\* contains previous
C32_NeverContainsPreviousUnlessRepeated ==
    (/\ Triple.given
     /\ calc.args[2] # EmptyStr
     /\ ~Contains(calc.args[3] \o Triple.new, calc.args[2])) =>
        ~Contains(calc.out, calc.args[2])

C32_Witness ==
    /\ Triple.given
    /\ Triple.new = <<"a">>
    /\ calc.args[2] = <<"a", " ">>
    /\ calc.args[3] = <<"q">>
    /\ calc.out = <<"a">>

\* C33 as stated, for parts none of which is empty: for a page
\* previous + query + new, the result of _extract_incremental_content never
\* starts with query
C33_NeverStartsWithQuery ==
    (/\ Triple.given
     /\ EmptyStr \notin {calc.args[2], calc.args[3], Triple.new}) =>
        ~StartsWith(calc.out, calc.args[3])

\* C33: for a page previous + query + new with a non-empty previous, a
\* non-empty query, and a new answer that does not itself start with the
\* query, the result of _extract_incremental_content never starts with query
C33_NeverStartsWithQueryUnlessRepeated ==
    (/\ Triple.given
     /\ calc.args[2] # EmptyStr
     /\ calc.args[3] # EmptyStr
     /\ ~StartsWith(Strip(Triple.new), calc.args[3])) =>
        ~StartsWith(calc.out, calc.args[3])

C33_Witness ==
    /\ Triple.given
    /\ Triple.new = <<" ", "a">>
    /\ calc.args[2] = <<"a", "a">>
    /\ calc.args[3] = <<"q", " ">>
    /\ calc.out = <<"a">>

\* C34: the list filter_sources returns holds no link to the engine's domain
\* and no url twice, has at most 10 entries, and is made of the first
\* occurrences of its urls in the order of the input
C34_SourcesFiltered ==
    calc.fn = "filter_sources" =>
        LET sources == calc.args[1]
            filtered == calc.out
        IN /\ Len(filtered) <= 10
           /\ \A i \in DOMAIN filtered :
                 /\ ~Contains(filtered[i].url, <<"google", ".com">>)
                 /\ ~Contains(filtered[i].url, <<"accounts.", "google">>)
                 /\ filtered[i].title \in DOMAIN sources
                 /\ filtered[i] = sources[filtered[i].title]
                 /\ \A k \in 1..(filtered[i].title - 1) :
                       sources[k].url # filtered[i].url
                 /\ \A j \in DOMAIN filtered :
                       /\ i < j => filtered[i].title < filtered[j].title
                       /\ filtered[i].url = filtered[j].url => i = j

C34_Witness ==
    /\ calc.fn = "filter_sources"
    /\ Len(calc.args[1]) = 14
    /\ Contains(calc.args[1][1].url, <<"google", ".com">>)
    /\ calc.args[1][14].url = <<"https://", "example", ".com">>
    /\ Len(calc.out) = 10
    /\ calc.out[1].title = 2

\* C35: _is_captcha_page returns true for a text that holds, in any letter
\* case, a keyword of the list documented as the detector's (that of
\* AsyncGoogleAISearcher, which holds every keyword of GoogleAISearcher), and
\* false for any other text; the two classes give the same answer
C35_CaptchaDetected ==
    calc.fn = "_is_captcha_page" =>
        LET content == calc.args[1]
        IN /\ calc.ok <=>
                 \E k \in {<<"yichangliuliang">>, <<"womendexitongjiancedao">>,
                           <<"yanzhengninshizhenren">>,
                           <<"unusual", " ", "traffic">>,
                           <<"automated", " ", "requests">>,
                           <<"prove", " ", "you're", " ", "not", " ", "a",
                             " ", "robot">>,
                           <<"verify", " ", "you're", " ", "human">>,
                           <<"re", "captcha">>, <<"captcha">>} :
                    Contains(lower(content), k)
           /\ SyncIsCaptchaPage(content) = AsyncIsCaptchaPage(content)

\* C36: while a cooldown is active the executor starts no search, whenever
\* the call was submitted
C36_NoSearchStartsInCooldown ==
    [][\A c \in Calls :
          (pc[c] = "queued" /\ pc'[c] = "running") => ~CooldownActive]_vars

\* C37: call_tool records the cooldown timestamp only when the search it
\* awaited ended in the verification timeout of the intervention handler
C37_CooldownOnlyOnVerificationTimeout ==
    [][\A c \in Calls :
          (/\ pc[c] = "finished" /\ pc'[c] = "idle"
           /\ login_timeout_timestamp' # login_timeout_timestamp)
             => call[c].result.error = ErrInterventionTimeout]_vars

\* C38: when a turn that went through the intervention handler has returned,
\* the visible window it opened is closed and the controller holds no session
\* and no handle; the turn after it starts a browser of its own, or fails
\* to, and never goes on with a handle it held
C38_InterventionLeavesNoSession ==
    /\ [](Happened(last.ev, "intervention") =>
            /\ ~searcher.session_active
            /\ AllReleased
            /\ Happened(last.ev, "visible_opened") =>
                  /\ Before(last.ev, "visible_opened", "visible_closed")
                  /\ last.ev[Len(last.ev)] = "visible_closed")
    /\ [][(/\ Happened(last.ev, "intervention")
           /\ <<last, launched>>' # <<last, launched>>
           /\ last'.op \in {"search", "continue_conversation"}) =>
              /\ ~Happened(last'.ev, "session_held")
              /\ \/ Happened(last'.ev, "starting")
                 \/ Happened(last'.ev, "temp_opened")
                 \/ \A i \in DOMAIN last'.ev :
                       last'.ev[i] \in {"raised", "start_failed",
                                        "fallback_search"}]_vars

\* A search that timed out in the handler, and after it a search that
\* started a session and succeeded
C38_Witness ==
    /\ call[1].result.error = ErrInterventionTimeout
    /\ pc[2] = "finished"
    /\ call[2].result = last.result
    /\ last.result.success
    /\ ~Happened(last.ev, "intervention")
    /\ Happened(last.ev, "starting")
    /\ searcher.session_active

\* C39: a search or follow-up that returns a failed result leaves
\* last_ai_answer as it was, or leaves it empty with the session torn down
C39_FailedTurnKeepsBaseline ==
    [][(/\ <<last, searcher>>' # <<last, searcher>>
        /\ last'.op \in {"search", "continue_conversation"}
        /\ ~last'.result.success) =>
           \/ searcher'.last_ai_answer = searcher.last_ai_answer
           \/ /\ searcher'.last_ai_answer = EmptyStr
              /\ ~searcher'.session_active]_vars

\* C40: continue_conversation returns only after it has extracted the answer
\* of the follow-up or has gone to a new search for the same query, and it
\* goes to the new search when it finds no session
C40_FollowUpOrFallback ==
    last.op = "continue_conversation" =>
        /\ \/ Happened(last.ev, "followup_extracted")
           \/ Happened(last.ev, "fallback_search")
        /\ last.idle = -1 => Happened(last.ev, "fallback_search")

====
